---- MODULE Spec2Model ----
(***************************************************************************)
(* Scheduled-post delivery of crosspost_bot: the PostgreSQL store          *)
(* (database.py), the background worker (scheduler.py), the VK client      *)
(* (services/vk_client.py) and the conversational bot (bot.py).            *)
(*                                                                         *)
(* One ScheduledPostWorker and one Database share an asyncio event loop.   *)
(* Every await is a suspension point, so each awaited call of the worker   *)
(* is one action and other coroutines (store clients, stop(), the clock)   *)
(* interleave between them.                                                *)
(***************************************************************************)
EXTENDS Integers, Sequences, FiniteSets, TLC

\* ---------------------------------------------------------------- bounds
\* the clock runs over 0..MaxTime
MaxTime == 1
\* rows inserted into channels, user_permissions and scheduled_posts together
MaxRows == 3
\* deliveries (platform calls of a post) that raise
MaxFailures == 1
\* pending posts of a stored backlog beyond BatchLimit
BacklogExtra == 1
\* Task objects created by start() over a run
MaxTasks == 2
\* media items of a post
MaxMedia == 3
\* digits of a group id, and blanks on either side of it
MaxDigits == 2
MaxPad == 1

\* LIMIT 25 of due_posts
BatchLimit == 25

VARIABLES
    pool,             \* Database._pool is set (connect) or None (close)
    now,              \* the clock read by NOW() and by datetime.now()
    users,            \* table users: the telegram_id keys
    user_permissions, \* table user_permissions: <<telegram_id, channel_id>>
    channels,         \* table channels: row id = index
    scheduled_posts,  \* table scheduled_posts: row id = index
    task,             \* ScheduledPostWorker._task: NULL or <<t>>, t a Task
    tasks,            \* the Task objects created by start(), in order; each
                      \* is the state of one _run coroutine:
                      \*   state  "running", "finished" or "raised"
                      \*   pc     its position; where it ended: "return"
                      \*          (the while condition), "raise_due_posts",
                      \*          "raise_except" (an exception left the loop)
                      \*   posts  the list returned by due_posts()
                      \*   idx    position of `post` in posts
    stop_event,       \* ScheduledPostWorker._stop_event
    stopPc,           \* per stop() caller: position, or how the call ended
    awaited,          \* per stop() caller: the Task of `await self._task`
    hist,             \* per post: what the worker did with it (history)
    input,            \* arguments of a delivery call examined on its own
    output,           \* what that call did
    vk_client,        \* the VKClient: the token each of its attributes was
                      \* built from, and the update_token call in progress
    bot_db,           \* bot.db, the SQLite tables of AdminControlledReplyBot
    user_data,        \* context.user_data of each Telegram user
    update            \* the update handled last and what its handler did

vars == <<pool, now, users, user_permissions, channels, scheduled_posts, task,
          tasks, stop_event, stopPc, awaited, hist, input, output, vk_client,
          bot_db, user_data, update>>

storeVars == <<users, user_permissions, channels, scheduled_posts>>
workerVars == <<task, tasks, stop_event, stopPc, awaited>>
callVars == <<input, output, vk_client>>
botVars == <<bot_db, user_data, update>>

\* sent_at and other nullable values: <<>> is NULL/None, <<v>> is the value v
NULL == <<>>

Min(a, b) == IF a < b THEN a ELSE b

\* ------------------------------------------------------------- the store

\* variants of the WHERE clause: `<` for `<=`, no status test, no time test
DueWhereLate(row, t) == row.status = "pending" /\ row.scheduled_for < t
DueWhereAnyStatus(row, t) == row.scheduled_for <= t
DueWhereEarly(row, t) == row.status = "pending"
\* variant: with an inner JOIN users u ON sp.user_id = u.telegram_id
DueWhereOwned(row, t) ==
    row.status = "pending" /\ row.scheduled_for <= t /\ row.user_id # NULL
\* WHERE sp.status = 'pending' AND sp.scheduled_for <= NOW()
DueWhere(row, t) == row.status = "pending" /\ row.scheduled_for <= t

\* JOIN channels c ON sp.channel_id = c.id
JoinChannel(row, ch) == row.channel_id \in 1..Len(ch)

\* ORDER BY sp.scheduled_for; rows with equal scheduled_for come in an order
\* SQL leaves open: tie is the order the executor happens to produce.
TieOrders == {"asc", "desc"}
\* variant: ORDER BY sp.scheduled_for DESC
OrderBeforeDesc(sp, tie, i, j) ==
    \/ sp[i].scheduled_for > sp[j].scheduled_for
    \/ /\ sp[i].scheduled_for = sp[j].scheduled_for
       /\ IF tie = "asc" THEN i < j ELSE i > j
OrderBefore(sp, tie, i, j) ==
    \/ sp[i].scheduled_for < sp[j].scheduled_for
    \/ /\ sp[i].scheduled_for = sp[j].scheduled_for
       /\ IF tie = "asc" THEN i < j ELSE i > j

\* LIMIT 25
Limit(n) == Min(n, BatchLimit)

\* Database.due_posts: the selected rows, each with its id
due_posts(sp, ch, t, tie) ==
    LET S == {i \in 1..Len(sp) : DueWhere(sp[i], t) /\ JoinChannel(sp[i], ch)}
        rank == [i \in S |->
                    Cardinality({j \in S : OrderBefore(sp, tie, j, i)}) + 1]
    IN  [k \in 1..Limit(Cardinality(S)) |->
            LET i == CHOOSE i \in S : rank[i] = k
            IN  [id |-> i,
                 channel_id |-> sp[i].channel_id,
                 user_id |-> sp[i].user_id,
                 scheduled_for |-> sp[i].scheduled_for,
                 status |-> sp[i].status,
                 sent_at |-> sp[i].sent_at]]

\* Database.mark_post_sent: UPDATE ... SET status = %s, sent_at = NOW()
\* WHERE id = %s (no condition on the current status)
mark_post_sent(sp, post_id, status, t) ==
    [sp EXCEPT ![post_id].status = status, ![post_id].sent_at = <<t>>]

\* variant of the foreign key: user_id ... ON DELETE CASCADE
OnDeleteUserCascade(sp, telegram_id) ==
    SelectSeq(sp, LAMBDA row : row.user_id # <<telegram_id>>)
\* scheduled_posts.user_id REFERENCES users (telegram_id) ON DELETE SET NULL
OnDeleteUser(sp, telegram_id) ==
    [i \in 1..Len(sp) |->
        IF sp[i].user_id = <<telegram_id>>
        THEN [sp[i] EXCEPT !.user_id = NULL]
        ELSE sp[i]]

NoHist == [tg |-> "none", vk |-> "none", tgCalls |-> 0, vkCalls |-> 0,
           marks |-> 0, done |-> FALSE]

\* the telegram ids of the front-end's users; the first is the only user of
\* the specifications that follow the worker
TelegramIds == {1, 2}
FirstUser == CHOOSE u \in TelegramIds : \A v \in TelegramIds : u <= v

\* rows in the tables with a SERIAL key that stay within MaxRows
Rows == Len(channels) + Len(scheduled_posts) + Cardinality(user_permissions)

\* Database.connect: creates the pool (tables persist in the server)
connect ==
    /\ ~pool
    /\ pool' = TRUE
    /\ UNCHANGED <<now, storeVars, workerVars, hist, callVars, botVars>>

\* Database.close
close ==
    /\ pool
    /\ pool' = FALSE
    /\ UNCHANGED <<now, storeVars, workerVars, hist, callVars, botVars>>

\* Every store operation goes through Database.connection, which raises
\* RuntimeError while the pool is None; a statement that raises has not been
\* applied (autocommit, one statement per call).

\* Database.upsert_user: INSERT ... ON CONFLICT (telegram_id) DO UPDATE of
\* the name columns
upsert_user(telegram_id) ==
    /\ pool
    /\ users' = users \cup {telegram_id}
    /\ UNCHANGED <<pool, now, user_permissions, channels, scheduled_posts,
                   workerVars, hist, callVars, botVars>>

\* Database.delete_user: DELETE FROM users; user_permissions rows go with
\* the user (ON DELETE CASCADE), scheduled_posts rows lose their user_id
delete_user(telegram_id) ==
    /\ pool
    /\ users' = users \ {telegram_id}
    /\ user_permissions' = {p \in user_permissions : p[1] # telegram_id}
    /\ scheduled_posts' = OnDeleteUser(scheduled_posts, telegram_id)
    /\ UNCHANGED <<pool, now, channels, workerVars, hist, callVars, botVars>>

\* Database.add_channel
add_channel ==
    /\ pool
    /\ Rows < MaxRows
    /\ channels' = Append(channels, [is_active |-> TRUE])
    /\ UNCHANGED <<pool, now, users, user_permissions, scheduled_posts,
                   workerVars, hist, callVars, botVars>>

\* Database.deactivate_channel(channel_id, active)
deactivate_channel ==
    /\ pool
    /\ \E c \in 1..Len(channels), active \in BOOLEAN :
          channels' = [channels EXCEPT ![c].is_active = active]
    /\ UNCHANGED <<pool, now, users, user_permissions, scheduled_posts,
                   workerVars, hist, callVars, botVars>>

\* Database.grant_permissions: INSERT ... ON CONFLICT DO NOTHING; both
\* columns are foreign keys
grant_permissions ==
    /\ pool
    /\ \E u \in users, c \in 1..Len(channels) :
          /\ <<u, c>> \in user_permissions \/ Rows < MaxRows
          /\ user_permissions' = user_permissions \cup {<<u, c>>}
    /\ UNCHANGED <<pool, now, users, channels, scheduled_posts, workerVars,
                   hist, callVars, botVars>>

\* Database.revoke_permissions
revoke_permissions ==
    /\ pool
    /\ \E u \in TelegramIds, c \in 1..Len(channels) :
          user_permissions' = user_permissions \ {<<u, c>>}
    /\ UNCHANGED <<pool, now, users, channels, scheduled_posts, workerVars,
                   hist, callVars, botVars>>

\* Database.schedule_post: INSERT; channel_id must reference a channel
\* (REFERENCES channels (id)) and user_id a user (REFERENCES users);
\* scheduled_for is stored as given. One text and no media are examined:
\* the store keeps them as given and no statement of the store reads them
schedule_post ==
    /\ pool
    /\ Rows < MaxRows
    /\ \E c \in 1..Len(channels), u \in users, t \in 0..MaxTime,
          text \in {<<"C">>}, media \in {NULL} :
          scheduled_posts' = Append(scheduled_posts,
              [channel_id |-> c, user_id |-> <<u>>, text |-> text,
               media |-> media, scheduled_for |-> t,
               status |-> "pending", sent_at |-> NULL])
    /\ hist' = Append(hist, NoHist)
    /\ UNCHANGED <<pool, now, users, user_permissions, channels, workerVars,
                   callVars, botVars>>

\* Database.mark_post_sent called by a client other than the worker
mark_post_sent_call ==
    /\ pool
    /\ \E i \in 1..Len(scheduled_posts), s \in {"sent", "failed"} :
          scheduled_posts' = mark_post_sent(scheduled_posts, i, s, now)
    /\ UNCHANGED <<pool, now, users, user_permissions, channels, workerVars,
                   hist, callVars, botVars>>

\* the clock
Tick ==
    /\ now < MaxTime
    /\ now' = now + 1
    /\ UNCHANGED <<pool, storeVars, workerVars, hist, callVars, botVars>>

\* ------------------------------------------------------------ the worker

\* the Task objects, and the coroutines that call stop(); the first is the
\* only stop() caller of the specifications with one caller
Tasks == 1..Len(tasks)
StopCallers == {"shutdown", "restart"}
FirstCaller == "shutdown"

\* variant of start without the `if not self._task` test
start_again ==
    /\ Len(tasks) < MaxTasks
    /\ tasks' = Append(tasks, [state |-> "running", pc |-> "while",
                               posts |-> <<>>, idx |-> 0])
    /\ task' = <<Len(tasks) + 1>>
    /\ UNCHANGED <<pool, now, storeVars, stop_event, stopPc, awaited, hist,
                   callVars, botVars>>

\* variant of start that clears the stop event before it creates the Task
start_clear ==
    /\ task = NULL
    /\ Len(tasks) < MaxTasks
    /\ tasks' = Append(tasks, [state |-> "running", pc |-> "while",
                               posts |-> <<>>, idx |-> 0])
    /\ task' = <<Len(tasks) + 1>>
    /\ stop_event' = FALSE
    /\ UNCHANGED <<pool, now, storeVars, stopPc, awaited, hist, callVars,
                   botVars>>

\* ScheduledPostWorker.start: `if not self._task:` create_task(self._run())
start ==
    /\ task = NULL
    /\ Len(tasks) < MaxTasks
    /\ tasks' = Append(tasks, [state |-> "running", pc |-> "while",
                               posts |-> <<>>, idx |-> 0])
    /\ task' = <<Len(tasks) + 1>>
    /\ UNCHANGED <<pool, now, storeVars, stop_event, stopPc, awaited, hist,
                   callVars, botVars>>

\* ScheduledPostWorker.stop, up to the suspension of `await self._task`: a
\* Task that is done does not suspend the caller, so the call ends here,
\* by `self._task = None` or by the Task's exception
stop_set(c) ==
    /\ stopPc[c] # "await"
    /\ stop_event' = TRUE
    /\ IF task = NULL
       THEN /\ stopPc' = [stopPc EXCEPT ![c] = "returned"]
            /\ UNCHANGED <<task, awaited>>
       ELSE LET t == task[1] IN
            IF tasks[t].state = "running"
            THEN /\ stopPc' = [stopPc EXCEPT ![c] = "await"]
                 /\ awaited' = [awaited EXCEPT ![c] = <<t>>]
                 /\ task' = task
            ELSE IF tasks[t].state = "finished"
            THEN /\ stopPc' = [stopPc EXCEPT ![c] = "returned"]
                 /\ task' = NULL
                 /\ awaited' = awaited
            ELSE /\ stopPc' = [stopPc EXCEPT ![c] = "raised"]
                 /\ UNCHANGED <<task, awaited>>
    /\ UNCHANGED <<pool, now, storeVars, tasks, hist, callVars, botVars>>

\* variant of stop(): the caller does not wait for the Task
stop_join_early(c) ==
    /\ stopPc[c] = "await"
    /\ task' = NULL
    /\ stopPc' = [stopPc EXCEPT ![c] = "returned"]
    /\ awaited' = [awaited EXCEPT ![c] = NULL]
    /\ UNCHANGED <<pool, now, storeVars, tasks, stop_event, hist, callVars, botVars>>

\* ScheduledPostWorker.stop resumes when the awaited Task is done:
\* `await self._task` returns and `self._task = None` runs, or the await
\* re-raises the Task's exception and the assignment is not reached
stop_join(c) ==
    /\ stopPc[c] = "await"
    /\ tasks[awaited[c][1]].state # "running"
    /\ IF tasks[awaited[c][1]].state = "finished"
       THEN /\ task' = NULL
            /\ stopPc' = [stopPc EXCEPT ![c] = "returned"]
       ELSE /\ task' = task
            /\ stopPc' = [stopPc EXCEPT ![c] = "raised"]
    /\ awaited' = [awaited EXCEPT ![c] = NULL]
    /\ UNCHANGED <<pool, now, storeVars, tasks, stop_event, hist, callVars, botVars>>

\* variant of the loop condition: `while True`
run_while_true(t) ==
    /\ tasks[t].state = "running"
    /\ tasks[t].pc = "while"
    /\ tasks' = [tasks EXCEPT ![t].pc = "due_posts"]
    /\ UNCHANGED <<pool, now, storeVars, task, stop_event, stopPc, awaited,
                   hist, callVars, botVars>>

\* _run: `while not self._stop_event.is_set()`
run_while(t) ==
    /\ tasks[t].state = "running"
    /\ tasks[t].pc = "while"
    /\ IF stop_event
       THEN tasks' = [tasks EXCEPT ![t].pc = "return",
                                   ![t].state = "finished"]
       ELSE tasks' = [tasks EXCEPT ![t].pc = "due_posts"]
    /\ UNCHANGED <<pool, now, storeVars, task, stop_event, stopPc, awaited,
                   hist, callVars, botVars>>

\* the position after `post` has been handled: the next post, or the wait
NextPc(k, batch) == IF k < Len(batch) THEN "send_to_telegram" ELSE "wait"

\* variant of the loop over the batch: `for post in reversed(posts)`
run_due_posts_reversed(t) ==
    /\ tasks[t].state = "running"
    /\ tasks[t].pc = "due_posts"
    /\ IF pool
       THEN \E tie \in TieOrders :
               LET batch == due_posts(scheduled_posts, channels, now, tie)
                   n == Len(batch) IN
               tasks' = [tasks EXCEPT
                            ![t].posts = [k \in 1..n |-> batch[n + 1 - k]],
                            ![t].idx = 1,
                            ![t].pc = NextPc(0, batch)]
       ELSE tasks' = [tasks EXCEPT ![t].pc = "raise_due_posts",
                                   ![t].state = "raised"]
    /\ UNCHANGED <<pool, now, storeVars, task, stop_event, stopPc, awaited,
                   hist, callVars, botVars>>

\* _run: `posts = await self.db.due_posts()`; outside any try/except, so the
\* RuntimeError of Database.connection ends the task
run_due_posts(t) ==
    /\ tasks[t].state = "running"
    /\ tasks[t].pc = "due_posts"
    /\ IF pool
       THEN \E tie \in TieOrders :
               LET batch == due_posts(scheduled_posts, channels, now, tie) IN
               tasks' = [tasks EXCEPT ![t].posts = batch,
                                      ![t].idx = 1,
                                      ![t].pc = NextPc(0, batch)]
       ELSE tasks' = [tasks EXCEPT ![t].pc = "raise_due_posts",
                                   ![t].state = "raised"]
    /\ UNCHANGED <<pool, now, storeVars, task, stop_event, stopPc, awaited,
                   hist, callVars, botVars>>

\* the deliveries that raised so far (each post has at most one)
Raised ==
    Cardinality({i \in 1..Len(hist) :
                    hist[i].tg = "raised" \/ hist[i].vk = "raised"})

\* _send_post: `await self._send_to_telegram(...)`; a raise skips
\* _send_to_vk and reaches `except Exception` of _run
send_to_telegram(t) ==
    /\ tasks[t].state = "running"
    /\ tasks[t].pc = "send_to_telegram"
    /\ LET id == tasks[t].posts[tasks[t].idx].id IN
       \/ /\ tasks' = [tasks EXCEPT ![t].pc = "send_to_vk"]
          /\ hist' = [hist EXCEPT ![id].tg = "ok",
                                  ![id].tgCalls = @ + 1]
       \/ /\ Raised < MaxFailures
          /\ tasks' = [tasks EXCEPT ![t].pc = "except"]
          /\ hist' = [hist EXCEPT ![id].tg = "raised",
                                  ![id].tgCalls = @ + 1]
    /\ UNCHANGED <<pool, now, storeVars, task, stop_event, stopPc, awaited,
                   callVars, botVars>>

\* _send_post: `await self._send_to_vk(...)`
send_to_vk(t) ==
    /\ tasks[t].state = "running"
    /\ tasks[t].pc = "send_to_vk"
    /\ LET id == tasks[t].posts[tasks[t].idx].id IN
       \/ /\ tasks' = [tasks EXCEPT ![t].pc = "mark_post_sent"]
          /\ hist' = [hist EXCEPT ![id].vk = "ok",
                                  ![id].vkCalls = @ + 1]
       \/ /\ Raised < MaxFailures
          /\ tasks' = [tasks EXCEPT ![t].pc = "except"]
          /\ hist' = [hist EXCEPT ![id].vk = "raised",
                                  ![id].vkCalls = @ + 1]
    /\ UNCHANGED <<pool, now, storeVars, task, stop_event, stopPc, awaited,
                   callVars, botVars>>

\* _run: `await self.db.mark_post_sent(post["id"])`, inside the try
run_mark_sent(t) ==
    /\ tasks[t].state = "running"
    /\ tasks[t].pc = "mark_post_sent"
    /\ LET id == tasks[t].posts[tasks[t].idx].id IN
       IF pool
       THEN /\ scheduled_posts' = mark_post_sent(scheduled_posts, id, "sent", now)
            /\ hist' = [hist EXCEPT ![id].marks = @ + 1, ![id].done = TRUE]
            /\ tasks' = [tasks EXCEPT
                            ![t].pc = NextPc(tasks[t].idx, tasks[t].posts),
                            ![t].idx = @ + 1]
       ELSE /\ tasks' = [tasks EXCEPT ![t].pc = "except"]
            /\ UNCHANGED <<scheduled_posts, hist>>
    /\ UNCHANGED <<pool, now, users, user_permissions, channels, task,
                   stop_event, stopPc, awaited, callVars, botVars>>

\* variant of the except branch: `except Exception: continue`
run_except_continue(t) ==
    /\ tasks[t].state = "running"
    /\ tasks[t].pc = "except"
    /\ tasks' = [tasks EXCEPT ![t].pc = NextPc(tasks[t].idx, tasks[t].posts),
                              ![t].idx = @ + 1]
    /\ UNCHANGED <<pool, now, storeVars, task, stop_event, stopPc, awaited,
                   hist, callVars, botVars>>

\* variant of the except branch: mark_post_sent without status="failed"
run_except_sent(t) ==
    /\ tasks[t].state = "running"
    /\ tasks[t].pc = "except"
    /\ LET id == tasks[t].posts[tasks[t].idx].id IN
       IF pool
       THEN /\ scheduled_posts' = mark_post_sent(scheduled_posts, id, "sent", now)
            /\ hist' = [hist EXCEPT ![id].marks = @ + 1, ![id].done = TRUE]
            /\ tasks' = [tasks EXCEPT
                            ![t].pc = NextPc(tasks[t].idx, tasks[t].posts),
                            ![t].idx = @ + 1]
       ELSE /\ tasks' = [tasks EXCEPT ![t].pc = "raise_except",
                                      ![t].state = "raised"]
            /\ UNCHANGED <<scheduled_posts, hist>>
    /\ UNCHANGED <<pool, now, users, user_permissions, channels, task,
                   stop_event, stopPc, awaited, callVars, botVars>>

\* _run: `except Exception:` ... `await self.db.mark_post_sent(post["id"],
\* status="failed")`; a raise here leaves the for and while loops
run_except(t) ==
    /\ tasks[t].state = "running"
    /\ tasks[t].pc = "except"
    /\ LET id == tasks[t].posts[tasks[t].idx].id IN
       IF pool
       THEN /\ scheduled_posts' = mark_post_sent(scheduled_posts, id, "failed", now)
            /\ hist' = [hist EXCEPT ![id].marks = @ + 1, ![id].done = TRUE]
            /\ tasks' = [tasks EXCEPT
                            ![t].pc = NextPc(tasks[t].idx, tasks[t].posts),
                            ![t].idx = @ + 1]
       ELSE /\ tasks' = [tasks EXCEPT ![t].pc = "raise_except",
                                      ![t].state = "raised"]
            /\ UNCHANGED <<scheduled_posts, hist>>
    /\ UNCHANGED <<pool, now, users, user_permissions, channels, task,
                   stop_event, stopPc, awaited, callVars, botVars>>

\* _run: `await asyncio.wait_for(self._stop_event.wait(), timeout=60)`:
\* returns when the event is set, else TimeoutError and `continue`; the
\* list of the finished iteration is not read again (posts is reassigned by
\* the next fetch), so it is dropped here
run_wait(t) ==
    /\ tasks[t].state = "running"
    /\ tasks[t].pc = "wait"
    /\ tasks' = [tasks EXCEPT ![t].pc = "while", ![t].posts = <<>>,
                              ![t].idx = 0]
    /\ UNCHANGED <<pool, now, storeVars, task, stop_event, stopPc, awaited,
                   hist, callVars, botVars>>

\* one step of the _run coroutine of Task t
run(t) ==
    \/ run_while(t)
    \/ run_due_posts(t)
    \/ send_to_telegram(t)
    \/ send_to_vk(t)
    \/ run_mark_sent(t)
    \/ run_except(t)
    \/ run_wait(t)

Worker == \E t \in Tasks : run(t)

\* ----------------------------------------------------- the chat delivery

\* media items of a post, and lists of them (MaxMedia is a bound, above)
FileIds == {"f1", "f2"}
RECURSIVE MediaLists(_)
MediaLists(n) ==
    IF n = 0
    THEN {<<>>}
    ELSE MediaLists(n - 1) \cup
         {Append(m, [file_id |-> f, file_unique_id |-> f]) :
             m \in {l \in MediaLists(n - 1) : Len(l) = n - 1}, f \in FileIds}

\* `text or ""` for an optional string
OrEmpty(text) == IF text = NULL THEN "" ELSE text[1]
\* `post.get("media") or []`
OrNoMedia(media) == IF media = NULL THEN <<>> ELSE media[1]

\* the calls on telegram.Bot, as the records of their keyword arguments
send_message(chat_id, text) ==
    [method |-> "send_message", chat_id |-> chat_id, text |-> <<text>>,
     photo |-> NULL, caption |-> NULL, media |-> NULL]
send_photo(chat_id, photo, caption) ==
    [method |-> "send_photo", chat_id |-> chat_id, text |-> NULL,
     photo |-> <<photo>>, caption |-> <<caption>>, media |-> NULL]
send_media_group(chat_id, media) ==
    [method |-> "send_media_group", chat_id |-> chat_id, text |-> NULL,
     photo |-> NULL, caption |-> NULL, media |-> <<media>>]

\* variant: the caption on every album item
AlbumCaptionAll(text, index) == text
\* `caption = text if index == 0 else None` (index counts from 0)
AlbumCaption(text, index) == IF index = 0 THEN text ELSE NULL

\* InputMediaPhoto(media=item["file_id"], caption=caption)
InputMediaPhoto(media, caption) == [media |-> media, caption |-> caption]

\* variant of the test `len(media) == 1`: `len(media) <= 2`
IsSinglePhotoOrPair(media) == Len(media) <= 2
IsSinglePhoto(media) == Len(media) = 1

\* ScheduledPostWorker._send_to_telegram: the bot calls it makes, in order
send_to_telegram_calls(channel, text, media) ==
    IF media # <<>>
    THEN IF IsSinglePhoto(media)
         THEN <<send_photo(channel, media[1].file_id, OrEmpty(text))>>
         ELSE <<send_media_group(channel,
                   [k \in 1..Len(media) |->
                       InputMediaPhoto(media[k].file_id,
                                       AlbumCaption(text, k - 1))])>>
    ELSE <<send_message(channel, OrEmpty(text))>>

\* _send_post: the chat half, `media = post.get("media") or []` and
\* `await self._send_to_telegram(...)`; the bot call returns, or raises
\* TelegramError, which _send_to_telegram logs and re-raises
call_send_to_telegram ==
    /\ output = NULL
    /\ \E raised \in BOOLEAN :
          output' = <<[calls |-> send_to_telegram_calls(input.channel,
                                     input.text, OrNoMedia(input.media)),
                       raised |-> raised]>>
    /\ UNCHANGED <<pool, now, storeVars, workerVars, hist, input, vk_client,
                   botVars>>

\* ------------------------------------------------------- the VK client

\* strings are sequences of characters
Whitespace == {" "}
DigitChars == <<"0", "1", "2", "3", "4", "5", "6", "7", "8", "9">>
IsDigit(ch) == \E d \in 1..Len(DigitChars) : DigitChars[d] = ch
DigitOf(ch) == (CHOOSE d \in 1..Len(DigitChars) : DigitChars[d] = ch) - 1

\* str.strip()
RECURSIVE lstrip(_)
lstrip(s) ==
    IF s # <<>> /\ Head(s) \in Whitespace THEN lstrip(Tail(s)) ELSE s
RECURSIVE rstrip(_)
rstrip(s) ==
    IF s # <<>> /\ s[Len(s)] \in Whitespace
    THEN rstrip(SubSeq(s, 1, Len(s) - 1))
    ELSE s
strip(s) == rstrip(lstrip(s))

\* str.startswith(prefix)
startswith(s, prefix) ==
    Len(s) >= Len(prefix) /\ SubSeq(s, 1, Len(prefix)) = prefix

\* the number written by a sequence of decimal digits
RECURSIVE DigitsValue(_)
DigitsValue(s) ==
    IF s = <<>>
    THEN 0
    ELSE DigitsValue(SubSeq(s, 1, Len(s) - 1)) * 10 + DigitOf(s[Len(s)])

\* int(s) for a str: surrounding whitespace, an optional sign, then one or
\* more decimal digits; anything else raises ValueError. (Python also takes
\* single underscores between digits and non-ASCII digits; the strings
\* examined here hold neither.)
py_int(s) ==
    LET u == strip(s)
        signed == u # <<>> /\ Head(u) \in {"-", "+"}
        digits == IF signed THEN Tail(u) ELSE u
    IN  IF digits # <<>> /\ \A k \in 1..Len(digits) : IsDigit(digits[k])
        THEN [raised |-> FALSE,
              value |-> IF signed /\ Head(u) = "-"
                        THEN 0 - DigitsValue(digits)
                        ELSE DigitsValue(digits)]
        ELSE [raised |-> TRUE, value |-> 0]

\* str(n) for an int
RECURSIVE Decimal(_)
Decimal(n) ==
    IF n < 10
    THEN <<DigitChars[n + 1]>>
    ELSE Append(Decimal(n \div 10), DigitChars[(n % 10) + 1])
py_str(n) == IF n < 0 THEN <<"-">> \o Decimal(0 - n) ELSE Decimal(n)

abs(n) == IF n < 0 THEN 0 - n ELSE n

\* variant of the last line: `return int(group_id)`
NegAbsKeep(n) == n
\* `-abs(...)` of the last line
NegAbs(n) == 0 - abs(n)

\* VKClient._normalize_group_id: the int returned, or ValueError raised
normalize_group_id(group_id) ==
    LET g == strip(group_id) IN
    IF startswith(g, <<"-">>)
    THEN py_int(g)
    ELSE LET h == IF startswith(g, <<"c", "l", "u", "b">>)
                  THEN SubSeq(g, 5, Len(g))
                  ELSE g
             n == py_int(h)
         IN  IF n.raised THEN n ELSE [raised |-> FALSE, value |-> NegAbs(n.value)]

\* the group ids examined: blanks, a prefix, digits, blanks
Pad(n) == [k \in 1..n |-> " "]
Prefixes ==
    {<<>>, <<"-">>, <<"c", "l", "u", "b">>, <<"c", "l", "u", "b", "-">>,
     <<"+">>, <<"-", "-">>, <<"c", "l", "u", "b", " ">>, <<"c">>}
SomeDigits == {"0", "1", "2"}
RECURSIVE DigitStrings(_)
DigitStrings(n) ==
    IF n = 0
    THEN {<<>>}
    ELSE DigitStrings(n - 1) \cup
         {Append(s, d) : s \in {x \in DigitStrings(n - 1) : Len(x) = n - 1},
                         d \in SomeDigits}
GroupIds ==
    {Pad(l) \o p \o d \o Pad(r) :
        l \in 0..MaxPad, r \in 0..MaxPad, p \in Prefixes,
        d \in DigitStrings(MaxDigits)}

\* VKClient.post_to_group: the calls on the VK session, in order; a
\* ValueError of _normalize_group_id leaves before any call
post_to_group(group_id, message, photo_files) ==
    LET owner_id == normalize_group_id(group_id) IN
    IF owner_id.raised
    THEN [raised |-> TRUE, calls |-> <<>>]
    ELSE [raised |-> FALSE,
          calls |->
             (IF photo_files # NULL /\ photo_files[1] # <<>>
              THEN <<[method |-> "photo_wall",
                      id |-> abs(owner_id.value),
                      photos |-> Len(photo_files[1])]>>
              ELSE <<>>)
             \o <<[method |-> "wall.post",
                   id |-> owner_id.value,
                   photos |-> IF photo_files = NULL THEN 0
                              ELSE Len(photo_files[1])]>>]

\* _send_to_vk: `asyncio.to_thread(self.vk_client.post_to_group, ...)`
call_post_to_group ==
    /\ output = NULL
    /\ output' = <<post_to_group(input.group_id, input.message,
                                 input.photo_files)>>
    /\ UNCHANGED <<pool, now, storeVars, workerVars, hist, input, vk_client,
                   botVars>>

\* the statement of Database.upsert_user on the rows of users (telegram_id
\* -> row): INSERT of the key and the three names, is_admin and is_approved
\* taking DEFAULT FALSE; ON CONFLICT (telegram_id) DO UPDATE SET username,
\* first_name, last_name = EXCLUDED...; RETURNING * is the row stored
upsert_user_returning(table, telegram_id, username, first_name, last_name) ==
    LET row == IF telegram_id \in DOMAIN table
               THEN [table[telegram_id] EXCEPT !.username = username,
                                               !.first_name = first_name,
                                               !.last_name = last_name]
               ELSE [username |-> username, first_name |-> first_name,
                     last_name |-> last_name, is_admin |-> FALSE,
                     is_approved |-> FALSE]
    IN  [table |-> (telegram_id :> row) @@ table, record |-> row]

\* upsert_user called on the table in `input`
call_upsert_user ==
    /\ output = NULL
    /\ output' = <<upsert_user_returning(input.table, input.telegram_id,
                                         input.username, input.first_name,
                                         input.last_name)>>
    /\ UNCHANGED <<pool, now, storeVars, workerVars, hist, input, vk_client,
                   botVars>>

\* ------------------------------------------------------- the wall delivery

\* the calls _send_to_vk and post_to_group make, as records of their
\* arguments: the file or community, the text, the photos or attachments
WallCall(method, id, message, items) ==
    [method |-> method, id |-> id, message |-> message, items |-> items]

\* f"{item.get('file_unique_id', 'photo')}.jpg"
FileName(item) == <<item.file_unique_id, ".jpg">>

\* the bytes Telegram serves for a file: told apart by the file they belong to
BytesOf(file_id) == <<"bytes", file_id>>

\* VkUpload.photo_wall on success: the saved photos, one for each file handed
\* over and in that order, owned by the community
photo_wall(photos, group_id) ==
    [k \in 1..Len(photos) |-> [owner_id |-> 0 - group_id, id |-> photos[k]]]

\* f"photo{photo['owner_id']}_{photo['id']}"
PhotoRef(photo) == <<"photo", photo.owner_id, "_", photo.id>>

\* ",".join(attachments)
RECURSIVE Join(_)
Join(refs) ==
    IF refs = <<>>
    THEN <<>>
    ELSE IF Len(refs) = 1
    THEN refs[1]
    ELSE refs[1] \o <<",">> \o Join(Tail(refs))

\* `",".join(attachments) if attachments else None`
JoinOrNone(refs) == IF refs # <<>> THEN <<Join(refs)>> ELSE NULL

\* VKClient(token): `self._token`, and the session, the API handle and the
\* uploader built from it, each told apart by the token it carries; no
\* update_token call is in progress
VKClient(token) ==
    [_token |-> token, _vk_session |-> token, _api |-> token,
     _upload |-> token, update_token |-> NULL]

\* update_token(token), one assignment at a time: `self._token = token`,
\* `self._vk_session = vk_api.VkApi(token=token)`, `self._api =
\* self._vk_session.get_api()`, `self._upload = vk_api.VkUpload(
\* self._vk_session)`. Nothing locks the client, so a thread running
\* post_to_group reads the attributes between any two of them
update_token ==
    /\ \/ /\ vk_client.update_token = NULL
          /\ \E token \in {"vk1.a", "vk1.b"} :
                vk_client' = [vk_client EXCEPT
                                 !._token = token,
                                 !.update_token = <<[token |-> token,
                                                     pc |-> "_vk_session"]>>]
       \/ /\ vk_client.update_token # NULL
          /\ LET call == vk_client.update_token[1] IN
             vk_client' =
                 CASE call.pc = "_vk_session" ->
                          [vk_client EXCEPT
                              !._vk_session = call.token,
                              !.update_token = <<[call EXCEPT !.pc = "_api"]>>]
                   [] call.pc = "_api" ->
                          [vk_client EXCEPT
                              !._api = vk_client._vk_session,
                              !.update_token = <<[call EXCEPT !.pc = "_upload"]>>]
                   [] call.pc = "_upload" ->
                          [vk_client EXCEPT
                              !._upload = vk_client._vk_session,
                              !.update_token = NULL]
    /\ UNCHANGED <<pool, now, storeVars, workerVars, hist, input, output,
                   botVars>>

\* _send_to_vk entered for the post in `input`: `attachments = None`, and
\* `attachments = []` before the loop when there is media
send_to_vk_enter ==
    /\ output = NULL
    /\ LET media == OrNoMedia(input.media) IN
       output' = <<[pc |-> IF media # <<>> THEN "get_file" ELSE "post_to_group",
                    k |-> 1,
                    photo_files |-> IF media # <<>> THEN <<<<>>>> ELSE NULL,
                    owner_id |-> 0,
                    attachments |-> <<>>,
                    calls |-> <<>>,
                    tokens |-> <<>>,
                    on_disk |-> {}]>>
    /\ UNCHANGED <<pool, now, storeVars, workerVars, hist, input, vk_client,
                   botVars>>

\* the state of the wall delivery in progress, and its step to `next`
Wall == output[1]
WallStep(next) ==
    /\ output' = <<next>>
    /\ UNCHANGED <<pool, now, storeVars, workerVars, hist, input, vk_client,
                   botVars>>

\* `telegram_file = await self.bot.get_file(item["file_id"])`: returns or
\* raises; nothing in _send_to_vk catches
send_to_vk_get_file ==
    /\ output # NULL
    /\ Wall.pc = "get_file"
    /\ LET item == OrNoMedia(input.media)[Wall.k]
           call == WallCall("get_file", item.file_id, NULL, NULL)
       IN  \E raised \in BOOLEAN :
              WallStep([Wall EXCEPT !.calls = Append(@, call),
                                    !.pc = IF raised THEN "raised"
                                           ELSE "download"])

\* `data = await telegram_file.download_as_bytearray()` and the append to
\* attachments; then the next item, or post_to_group in a thread
send_to_vk_download ==
    /\ output # NULL
    /\ Wall.pc = "download"
    /\ LET media == OrNoMedia(input.media)
           item == media[Wall.k]
           call == WallCall("download_as_bytearray", item.file_id, NULL, NULL)
       IN  \/ WallStep([Wall EXCEPT !.calls = Append(@, call),
                                    !.pc = "raised"])
           \/ WallStep([Wall EXCEPT
                  !.calls = Append(@, call),
                  !.photo_files =
                      <<Append(@[1], [filename |-> FileName(item),
                                      data |-> BytesOf(item.file_id)])>>,
                  !.k = @ + 1,
                  !.pc = IF Wall.k < Len(media) THEN "get_file"
                         ELSE "post_to_group"])

\* post_to_group: `owner_id = self._normalize_group_id(group_id)` and
\* `if photo_files:`
post_to_group_enter ==
    /\ output # NULL
    /\ Wall.pc = "post_to_group"
    /\ LET owner_id == normalize_group_id(input.group_id) IN
       IF owner_id.raised
       THEN WallStep([Wall EXCEPT !.pc = "raised"])
       ELSE WallStep([Wall EXCEPT
               !.owner_id = owner_id.value,
               !.pc = IF Wall.photo_files # NULL /\ Wall.photo_files[1] # <<>>
                      THEN "photo_wall" ELSE "wall.post"])

\* variant of the upload: ApiError is logged and not re-raised
post_to_group_photo_wall_logged ==
    /\ output # NULL
    /\ Wall.pc = "photo_wall"
    /\ LET files == Wall.photo_files[1]
           temp_files == [k \in 1..Len(files) |-> files[k].data]
           call == WallCall("photo_wall", abs(Wall.owner_id), NULL, <<temp_files>>)
           uploaded == photo_wall(temp_files, abs(Wall.owner_id))
       IN  \/ \E n \in 1..Len(files) :
                 WallStep([Wall EXCEPT !.on_disk = (1..n) \ (1..(n - 1)),
                                       !.pc = "raised"])
           \/ WallStep([Wall EXCEPT !.calls = Append(@, call),
                                    !.tokens = Append(@, vk_client._upload),
                                    !.pc = "wall.post"])
           \/ WallStep([Wall EXCEPT
                  !.calls = Append(@, call),
                  !.tokens = Append(@, vk_client._upload),
                  !.attachments = [k \in 1..Len(uploaded) |-> PhotoRef(uploaded[k])],
                  !.pc = "wall.post"])

\* the temporary files written in order, `self._upload.photo_wall(...)` with
\* the uploader the client holds at that moment, and the references built
\* from its answer; ApiError is logged and re-raised, any other exception
\* passes through the finally block, which unlinks the names in temp_files.
\* `tmp.write(data)` of file n may raise: NamedTemporaryFile(delete=False)
\* has created files 1..n by then and `temp_files.append(tmp.name)` has run
\* for files 1..n-1 only; on_disk is what exists after the finally block
post_to_group_photo_wall ==
    /\ output # NULL
    /\ Wall.pc = "photo_wall"
    /\ LET files == Wall.photo_files[1]
           temp_files == [k \in 1..Len(files) |-> files[k].data]
           call == WallCall("photo_wall", abs(Wall.owner_id), NULL, <<temp_files>>)
           uploaded == photo_wall(temp_files, abs(Wall.owner_id))
       IN  \/ \E n \in 1..Len(files) :
                 WallStep([Wall EXCEPT !.on_disk = (1..n) \ (1..(n - 1)),
                                       !.pc = "raised"])
           \/ WallStep([Wall EXCEPT !.calls = Append(@, call),
                                    !.tokens = Append(@, vk_client._upload),
                                    !.pc = "raised"])
           \/ WallStep([Wall EXCEPT
                  !.calls = Append(@, call),
                  !.tokens = Append(@, vk_client._upload),
                  !.attachments = [k \in 1..Len(uploaded) |-> PhotoRef(uploaded[k])],
                  !.pc = "wall.post"])

\* `self._api.wall.post(owner_id=..., message=message or "", attachments=...,
\* from_group=True)` with the API handle the client holds at that moment:
\* returns, or ApiError is logged and re-raised
post_to_group_wall_post ==
    /\ output # NULL
    /\ Wall.pc = "wall.post"
    /\ LET call == WallCall("wall.post", Wall.owner_id,
                            <<OrEmpty(input.text)>>,
                            JoinOrNone(Wall.attachments))
       IN  \E raised \in BOOLEAN :
              WallStep([Wall EXCEPT !.calls = Append(@, call),
                                    !.tokens = Append(@, vk_client._api),
                                    !.pc = IF raised THEN "raised"
                                           ELSE "returned"])


\* ------------------------------------------------- the conversational bot
\* AdminControlledReplyBot of bot.py: its own SQLite store bot.db, the
\* per-user dictionaries context.user_data, and its handlers. The
\* application handles one update at a time (concurrent updates are not
\* enabled), so each handler invocation is one action.

\* the telegram_id of the administrator inserted by init_database
AdminId == 1258360028
\* the Telegram users who write to the bot
BotIds == {AdminId, FirstUser}
\* `timedelta(minutes=10)` of the datetime step
MinLead == 10
\* rows of bot.db's channels, AUTOINCREMENT ids given to users, and
\* messages collected of a media group
MaxChannels == 1
MaxUserIds == 2
MaxGroup == 1

\* a Python dict: a function on the keys present
EmptyDict == [k \in {} |-> NULL]
Has(d, k) == k \in DOMAIN d
Put(d, k, v) == (k :> v) @@ d
Pop(d, k) == [j \in DOMAIN d \ {k} |-> d[j]]

\* __init__ with init_database: the tables (CREATE TABLE IF NOT EXISTS) with
\* the first administrator, approved; beside the tables the record holds
\* the module's VK_TOKEN and whether the process runs
init_database ==
    [users |-> (AdminId :> [id |-> 1, is_admin |-> TRUE, is_approved |-> TRUE]),
     user_seq |-> 1,
     channels |-> <<>>,
     user_permissions |-> {},
     scheduled_posts |-> <<>>,
     vk_token |-> "VK_TOKEN",
     running |-> TRUE]

\* the bot after __init__
init_bot ==
    /\ bot_db = init_database
    /\ user_data = [u \in BotIds |-> EmptyDict]
    /\ update = NULL

\* get_user: the row of a telegram_id, or None
get_user(db, telegram_id) ==
    IF telegram_id \in DOMAIN db.users THEN <<db.users[telegram_id]>> ELSE NULL

\* register_user with INSERT OR REPLACE: the row of an existing telegram_id
\* is replaced by a new row, not approved
register_user_replace(db, telegram_id) ==
    [db EXCEPT
        !.users = (telegram_id :> [id |-> db.user_seq + 1,
                                   is_admin |-> FALSE,
                                   is_approved |-> FALSE]) @@ @,
        !.user_seq = @ + 1]

\* register_user: INSERT OR IGNORE, not approved (is_admin DEFAULT FALSE);
\* the id is the next AUTOINCREMENT value
register_user(db, telegram_id) ==
    IF telegram_id \in DOMAIN db.users
    THEN db
    ELSE [db EXCEPT
            !.users = (telegram_id :> [id |-> db.user_seq + 1,
                                       is_admin |-> FALSE,
                                       is_approved |-> FALSE]) @@ @,
            !.user_seq = @ + 1]

\* is_user_approved: `user and user['is_approved']`
is_user_approved(db, telegram_id) ==
    get_user(db, telegram_id) # NULL /\ get_user(db, telegram_id)[1].is_approved

\* get_pending_users
get_pending_users(db) ==
    {t \in DOMAIN db.users : ~db.users[t].is_approved}

\* the ids of the active channels
ActiveChannels(db) ==
    {c \in 1..Len(db.channels) : db.channels[c].is_active}

\* approve_user without the grants: is_approved = TRUE only
approve_user_flag_only(db, telegram_id) ==
    IF telegram_id \in DOMAIN db.users
    THEN [db EXCEPT !.users[telegram_id].is_approved = TRUE]
    ELSE db

\* approve_user: is_approved = TRUE, and INSERT OR REPLACE of a can_post
\* grant for every active channel
approve_user(db, telegram_id) ==
    IF telegram_id \in DOMAIN db.users
    THEN [db EXCEPT
            !.users[telegram_id].is_approved = TRUE,
            !.user_permissions =
                @ \cup {<<db.users[telegram_id].id, c>> : c \in ActiveChannels(db)}]
    ELSE db

\* approve_all_users: approve_user for each pending user
RECURSIVE ApproveEach(_, _)
ApproveEach(db, pending) ==
    IF pending = {}
    THEN db
    ELSE LET t == CHOOSE t \in pending : TRUE
         IN  ApproveEach(approve_user(db, t), pending \ {t})

\* delete_user of bot.py: the user's grants, then the user
bot_delete_user(db, telegram_id) ==
    IF telegram_id \in DOMAIN db.users
    THEN [db EXCEPT
            !.user_permissions =
                {p \in @ : p[1] # db.users[telegram_id].id},
            !.users = [t \in DOMAIN @ \ {telegram_id} |-> @[t]]]
    ELSE db

\* grant_access_to_all_users: a grant for every approved user
grant_access_to_all_users(db, channel_id) ==
    [db EXCEPT
        !.user_permissions =
            @ \cup {<<db.users[t].id, channel_id>> :
                       t \in {t \in DOMAIN db.users : db.users[t].is_approved}}]

\* the rows of a query in id order, for the ids in S, each as the dict the
\* channel queries build for a row
RECURSIVE RowsOf(_, _)
RowsOf(db, S) ==
    IF S = {}
    THEN <<>>
    ELSE LET c == CHOOSE c \in S : \A d \in S : c <= d
         IN  <<[id |-> c, name |-> db.channels[c].name,
                telegram |-> db.channels[c].telegram_channel,
                vk_group_id |-> db.channels[c].vk_group_id]>>
             \o RowsOf(db, S \ {c})

\* get_user_channels without `c.is_active = TRUE` in the WHERE clause
get_user_channels_any(db, user_id) ==
    RowsOf(db, {c \in 1..Len(db.channels) :
                   \/ <<user_id, c>> \in db.user_permissions
                   \/ db.channels[c].created_by = user_id
                   \/ \E t \in DOMAIN db.users :
                         db.users[t].id = user_id /\ db.users[t].is_admin})

\* get_user_channels: the active channels with a can_post grant of the user,
\* or created by the user, or any if the user is an admin
get_user_channels(db, user_id) ==
    RowsOf(db, {c \in ActiveChannels(db) :
                   \/ <<user_id, c>> \in db.user_permissions
                   \/ db.channels[c].created_by = user_id
                   \/ \E t \in DOMAIN db.users :
                         db.users[t].id = user_id /\ db.users[t].is_admin})

\* get_all_channels
get_all_channels(db) == RowsOf(db, ActiveChannels(db))

\* delete_channel: the grants of the channel, then is_active = FALSE
delete_channel(db, channel_id) ==
    [db EXCEPT
        !.user_permissions = {p \in @ : p[2] # channel_id},
        !.channels = [c \in 1..Len(@) |->
                        IF c = channel_id
                        THEN [@[c] EXCEPT !.is_active = FALSE]
                        ELSE @[c]]]

\* `next((ch for ch in channels if ch['name'] == channel_name), None)`
FirstNamed(chans, channel_name) ==
    LET S == {k \in 1..Len(chans) : chans[k].name = channel_name}
    IN  IF S = {} THEN NULL
        ELSE <<chans[CHOOSE k \in S : \A j \in S : k <= j]>>

\* message texts are sequences of characters; a label or a name that no
\* handler looks into is written as one element
Emoji ==
    [horn |-> "[loudspeaker]", clock |-> "[alarm clock]",
     bin |-> "[wastebasket]", vs16 |-> "[variation selector]"]
\* the labels of the menu buttons handle_text_message compares the text with
Button ==
    [publish |-> <<Emoji.horn, " ", "Publish post">>,
     schedule |-> <<Emoji.clock, " ", "Delayed post">>,
     my_channels |-> <<"My channels">>,
     user_management |-> <<"User management">>,
     channel_management |-> <<"Channel management">>,
     admin_management |-> <<"Admin management">>,
     status |-> <<"Status">>,
     help |-> <<"Help">>,
     stop |-> <<"Stop the bot">>,
     hide |-> <<"Hide menu">>,
     back |-> <<"Back to menu">>,
     approve_all |-> <<"Approve all users">>,
     add_channel |-> <<"Add channel">>,
     delete_channel |-> <<Emoji.bin, Emoji.vs16, " ", "Delete channel">>,
     delete_user |-> <<Emoji.bin, Emoji.vs16, " ", "Delete user">>]

\* a date and time in the format DD.MM.YYYY HH:MM: the format, then the
\* minute it names, in decimal
DateTimeText(t) == <<"DD.MM.YYYY HH:MM">> \o Decimal(t)
\* the parsing of the datetime step: the minute, or ValueError
ParseDateTime(text) ==
    IF text # <<>> /\ text[1] = "DD.MM.YYYY HH:MM"
    THEN py_int(Tail(text))
    ELSE [raised |-> TRUE, value |-> 0]

\* `keyword in text` for the two keywords of handle_token_message
HasTokenKeyword(text) ==
    \E k \in 1..Len(text) : text[k] \in {"access_token=", "oauth.vk.com"}

\* what a handler invocation did: the store and the user's dict after it,
\* the replies sent to the user, the platform calls made, and whether an
\* exception left the handler
Result(db, ud, replies, calls, raised) ==
    [db |-> db, ud |-> ud, replies |-> replies, calls |-> calls,
     raised |-> raised]
Reply(db, ud, reply) == Result(db, ud, <<reply>>, <<>>, FALSE)
\* a platform call of the bot
BotCall(method, target, content) ==
    [method |-> method, target |-> target, content |-> content]

\* what the platforms do with the calls of one handler invocation; the
\* invocations examined have at most one call that fails
Envs ==
    {env \in [download : {"ok", "raised"}, tg : {"ok", "raised"},
              vk : {"no_token", "ok", "upload_raised", "post_raised"},
              update_vk_token : {"ok", "raised"}] :
        Cardinality({f \in DOMAIN env : env[f] # "ok"}) <= 1}

\* publish_to_vk: the status text and the VK calls; every exception is
\* caught and becomes the status
publish_to_vk(channel, caption, photos, vk) ==
    IF vk = "no_token"
    THEN [status |-> "vk_unavailable", calls |-> <<>>]
    ELSE LET uploads == [k \in 1..Len(photos) |->
                            BotCall("vk.photo_wall", channel.vk_group_id,
                                    photos[k])]
         IN  IF vk = "upload_raised" /\ photos # <<>>
             THEN [status |-> "vk_error", calls |-> <<uploads[1]>>]
             ELSE [status |-> IF vk = "post_raised" THEN "vk_error"
                              ELSE "vk_published",
                   calls |-> Append(uploads,
                                BotCall("vk.wall.post", channel.vk_group_id,
                                        caption))]

\* publish_multiple_photos: the photos of the collected group, each sent to
\* the channel (the first with the caption), then VK, then a message to the
\* user's chat; an exception becomes an error message
publish_multiple_photos(db, ud, caption, env) ==
    IF ~Has(ud, "media_group")
    THEN Result(db, ud, <<>>, <<>>, FALSE)
    ELSE IF ~Has(ud["media_group"], "channel")
    THEN Result(db, ud, <<>>, <<>>, TRUE)
    ELSE LET media_group == ud["media_group"]
             channel == media_group["channel"]
             photos == SelectSeq(media_group["messages"],
                                 LAMBDA msg : msg.photo)
             sends == [k \in 1..Len(photos) |->
                          BotCall("send_photo", channel.telegram,
                                  IF k = 1 THEN caption ELSE <<>>)]
             vk == publish_to_vk(channel, caption, photos, env.vk)
         IN  IF env.download = "raised" /\ photos # <<>>
             THEN Result(db, ud, <<"publish_error">>, <<>>, FALSE)
             ELSE IF env.tg = "raised" /\ photos # <<>>
             THEN Result(db, ud, <<"publish_error">>, <<sends[1]>>, FALSE)
             ELSE Result(db, Pop(Pop(ud, "media_group"), "selected_channel"),
                         <<"photos_published", vk.status>>,
                         sends \o vk.calls, FALSE)

\* publish_text
publish_text(db, ud, text, env) ==
    IF Has(ud, "media_group")
    THEN publish_multiple_photos(db, ud, text, env)
    ELSE LET channel == ud["selected_channel"]
             send == BotCall("send_message", channel.telegram, text)
             vk == publish_to_vk(channel, text, <<>>, env.vk)
         IN  IF env.tg = "raised"
             THEN Result(db, ud, <<"publish_error">>, <<send>>, FALSE)
             ELSE Result(db, Pop(ud, "selected_channel"),
                         <<"published", vk.status>>,
                         <<send>> \o vk.calls, FALSE)

\* show_main_menu
show_main_menu(db, ud, u) ==
    IF ~is_user_approved(db, u)
    THEN Reply(db, ud, "access_denied")
    ELSE Reply(db, ud, "main_menu")

\* show_publish_menu, show_schedule_menu and show_my_channels: the user's
\* channels as buttons or as a list
show_channels(db, ud, u, menu) ==
    IF get_user_channels(db, get_user(db, u)[1].id) = <<>>
    THEN Reply(db, ud, "no_channels")
    ELSE Reply(db, ud, menu)

\* select_channel_for_publishing
select_channel_for_publishing(db, ud, u, channel_name) ==
    LET channel == FirstNamed(get_user_channels(db, get_user(db, u)[1].id),
                              channel_name)
    IN  IF channel # NULL
        THEN Reply(db, Put(Put(ud, "selected_channel", channel[1]),
                           "publish_type", "immediate"),
                   "channel_selected")
        ELSE Reply(db, ud, "channel_not_found")

\* select_channel_for_scheduling
select_channel_for_scheduling(db, ud, u, channel_name) ==
    LET channel == FirstNamed(get_user_channels(db, get_user(db, u)[1].id),
                              channel_name)
    IN  IF channel # NULL
        THEN Reply(db, Put(Put(Put(ud, "selected_channel", channel[1]),
                               "publish_type", "scheduled"),
                           "schedule_stage", "awaiting_datetime"),
                   "channel_selected_for_schedule")
        ELSE Reply(db, ud, "channel_not_found")

\* handle_schedule_setup. The content step reads `user_info['id']`, a name
\* that is bound neither in the function nor in the module: NameError is
\* raised before the INSERT is executed, so nothing is stored, user_data is
\* not cleared and no reply is sent.
handle_schedule_setup(db, ud, u, text, t) ==
    LET stage == ud["schedule_stage"] IN
    IF stage = "awaiting_datetime"
    THEN LET scheduled_time == ParseDateTime(text) IN
         IF scheduled_time.raised
         THEN Reply(db, ud, "bad_datetime")
         ELSE IF scheduled_time.value <= t + MinLead
         THEN Reply(db, ud, "too_early")
         ELSE Reply(db, Put(Put(ud, "scheduled_time", scheduled_time.value),
                            "schedule_stage", "awaiting_content"),
                    "time_set")
    ELSE IF stage = "awaiting_content"
    THEN Result(db, ud, <<>>, <<>>, TRUE)
    ELSE Result(db, ud, <<>>, <<>>, FALSE)

\* approve_all_users
approve_all_users(db, ud) ==
    Reply(ApproveEach(db, get_pending_users(db)), ud, "all_approved")

\* start_delete_user
start_delete_user(db, ud) ==
    Reply(db, Put(ud, "delete_user_stage", "awaiting_telegram_id"),
          "enter_telegram_id")

\* handle_user_deletion
handle_user_deletion(db, ud, text) ==
    LET telegram_id == py_int(text) IN
    IF telegram_id.raised
    THEN Reply(db, ud, "bad_id")
    ELSE IF get_user(db, telegram_id.value) # NULL
    THEN Reply(bot_delete_user(db, telegram_id.value), EmptyDict,
               "user_deleted")
    ELSE Reply(db, ud, "user_not_found")

\* show_channel_management
show_channel_management(db, ud) == Reply(db, ud, "channel_management")

\* start_add_channel
start_add_channel(db, ud) ==
    Reply(db, Put(ud, "setup_stage", "awaiting_name"), "enter_name")

\* start_delete_channel
start_delete_channel(db, ud) ==
    IF get_all_channels(db) = <<>>
    THEN Reply(db, ud, "no_channels_to_delete")
    ELSE Reply(db, Put(Put(ud, "delete_channel_stage", "awaiting_channel_name"),
                       "available_channels", get_all_channels(db)),
               "choose_channel_to_delete")

\* handle_channel_deletion: the channel is looked up in the list stored by
\* start_delete_channel
handle_channel_deletion(db, ud, text) ==
    IF startswith(text, <<Emoji.bin, Emoji.vs16, " ">>)
    THEN LET channel == FirstNamed(ud["available_channels"],
                                   SubSeq(text, 4, Len(text)))
         IN  IF channel # NULL
             THEN Reply(delete_channel(db, channel[1].id), EmptyDict,
                        "channel_deleted")
             ELSE Reply(db, ud, "channel_not_found")
    ELSE Result(db, ud, <<>>, <<>>, FALSE)

\* handle_channel_setup. After the last step `context.user_data.clear()`
\* empties the dict that the reply then reads `new_channel_name` from:
\* KeyError, after the channel and the grants were committed.
handle_channel_setup(db, ud, u, text) ==
    LET stage == ud["setup_stage"] IN
    IF stage = "awaiting_name"
    THEN Reply(db, Put(Put(ud, "new_channel_name", text),
                       "setup_stage", "awaiting_telegram"),
               "name_saved")
    ELSE IF stage = "awaiting_telegram"
    THEN Reply(db, Put(Put(ud, "new_telegram_channel", text),
                       "setup_stage", "awaiting_vk"),
               "telegram_saved")
    ELSE IF stage = "awaiting_vk"
    THEN LET user_info == get_user(db, u)[1]
             channel_id == Len(db.channels) + 1
             inserted ==
                 [db EXCEPT
                     !.channels =
                         Append(@, [name |-> ud["new_channel_name"],
                                    telegram_channel |-> ud["new_telegram_channel"],
                                    vk_group_id |-> text,
                                    created_by |-> user_info.id,
                                    is_active |-> TRUE]),
                     !.user_permissions = @ \cup {<<user_info.id, channel_id>>}]
         IN  Result(grant_access_to_all_users(inserted, channel_id),
                    EmptyDict, <<>>, <<>>, TRUE)
    ELSE Result(db, ud, <<>>, <<>>, FALSE)

\* handle_admin_addition (no branch of handle_text_message starts this
\* dialogue: start_add_admin is not called anywhere)
handle_admin_addition(db, ud, text) ==
    LET telegram_id == py_int(text) IN
    IF telegram_id.raised
    THEN Reply(db, ud, "bad_id")
    ELSE IF get_user(db, telegram_id.value) # NULL
    THEN Reply([db EXCEPT !.users[telegram_id.value].is_admin = TRUE,
                          !.users[telegram_id.value].is_approved = TRUE],
               EmptyDict, "admin_added")
    ELSE Reply(db, ud, "user_not_found")

\* stop_bot: for an admin the reply and `os._exit(0)`
stop_bot(db, ud, u) ==
    IF get_user(db, u) = NULL \/ ~get_user(db, u)[1].is_admin
    THEN Reply(db, ud, "admins_only")
    ELSE Reply([db EXCEPT !.running = FALSE], ud, "stopping")

\* admin_management
admin_management(db, ud, u) ==
    IF get_user(db, u) = NULL \/ ~get_user(db, u)[1].is_admin
    THEN Reply(db, ud, "admins_only")
    ELSE Reply(db, ud, "admin_management")

\* handle_text_message: the access test, then the first branch that matches
handle_text_message(db, ud, u, text, t, env) ==
    IF ~is_user_approved(db, u)
    THEN Reply(db, ud, "access_denied")
    ELSE
    LET user_info == get_user(db, u)[1] IN
    IF text = Button.publish THEN show_channels(db, ud, u, "publish_menu")
    ELSE IF text = Button.schedule THEN show_channels(db, ud, u, "schedule_menu")
    ELSE IF text = Button.my_channels THEN show_channels(db, ud, u, "my_channels")
    ELSE IF text = Button.user_management /\ user_info.is_admin
    THEN Reply(db, ud, "user_management")
    ELSE IF text = Button.channel_management /\ user_info.is_admin
    THEN show_channel_management(db, ud)
    ELSE IF text = Button.admin_management /\ user_info.is_admin
    THEN admin_management(db, ud, u)
    ELSE IF text = Button.status THEN Reply(db, ud, "status")
    ELSE IF text = Button.help THEN Reply(db, ud, "help")
    ELSE IF text = Button.stop /\ user_info.is_admin THEN stop_bot(db, ud, u)
    ELSE IF text = Button.hide THEN Reply(db, ud, "menu_hidden")
    ELSE IF text = Button.back THEN show_main_menu(db, ud, u)
    ELSE IF text = Button.approve_all /\ user_info.is_admin
    THEN approve_all_users(db, ud)
    ELSE IF text = Button.add_channel /\ user_info.is_admin
    THEN start_add_channel(db, ud)
    ELSE IF text = Button.delete_channel /\ user_info.is_admin
    THEN start_delete_channel(db, ud)
    ELSE IF text = Button.delete_user /\ user_info.is_admin
    THEN start_delete_user(db, ud)
    ELSE IF startswith(text, <<Emoji.horn, " ">>)
    THEN select_channel_for_publishing(db, ud, u, SubSeq(text, 3, Len(text)))
    ELSE IF startswith(text, <<Emoji.clock, " ">>)
    THEN select_channel_for_scheduling(db, ud, u, SubSeq(text, 3, Len(text)))
    ELSE IF Has(ud, "setup_stage") THEN handle_channel_setup(db, ud, u, text)
    ELSE IF Has(ud, "delete_channel_stage")
    THEN handle_channel_deletion(db, ud, text)
    ELSE IF Has(ud, "delete_user_stage") THEN handle_user_deletion(db, ud, text)
    ELSE IF Has(ud, "add_admin_stage") THEN handle_admin_addition(db, ud, text)
    ELSE IF Has(ud, "schedule_stage")
    THEN handle_schedule_setup(db, ud, u, text, t)
    ELSE IF Has(ud, "selected_channel") THEN publish_text(db, ud, text, env)
    ELSE Reply(db, ud, "use_menu")

\* handle_token_message: for an admin, a text with one of the keywords
\* replaces the VK token
handle_token_message(db, ud, u, text, env) ==
    IF get_user(db, u) = NULL \/ ~get_user(db, u)[1].is_admin
    THEN Result(db, ud, <<>>, <<>>, FALSE)
    ELSE IF HasTokenKeyword(text) /\ ~HasTokenKeyword(<<text[Len(text)]>>)
    THEN IF env.update_vk_token = "ok"
         THEN Reply([db EXCEPT !.vk_token = text[Len(text)]], ud,
                    "token_updated")
         ELSE Reply([db EXCEPT !.vk_token = text[Len(text)]], ud,
                    "token_update_failed")
    ELSE Result(db, ud, <<>>, <<>>, FALSE)

\* handle_text_message_with_token: handle_token_message, then
\* handle_text_message on what it left
handle_text_message_with_token(db, ud, u, text, t, env) ==
    LET first == handle_token_message(db, ud, u, text, env)
        second == handle_text_message(first.db, first.ud, u, text, t, env)
    IN  Result(second.db, second.ud, first.replies \o second.replies,
               first.calls \o second.calls, second.raised)

\* the name of the channels examined; also the plain text users send
ChannelName == <<"N">>

\* a photo message, or a message that is neither text nor photo: whether it
\* belongs to a media group, and its caption
Messages(photo) ==
    [photo : {photo}, media_group_id : {NULL, <<"g">>},
     caption : IF photo THEN {NULL, <<ChannelName>>} ELSE {NULL}]

\* the collecting of a media group message, shared by handle_photo (which
\* stores the selected channel with the group) and handle_other_messages
\* (which does not)
CollectGroup(db, ud, msg, first, reply) ==
    LET group == IF Has(ud, "media_group") THEN ud["media_group"] ELSE first
        stored == Put(group, "messages", Append(group["messages"], msg))
    IN  Result(db, Put(ud, "media_group", stored),
               IF Len(stored["messages"]) = 1 THEN <<reply>> ELSE <<>>,
               <<>>, FALSE)

\* handle_photo with the test of the sender's registration in place of the
\* test of the sender's approval
handle_photo_registered(db, ud, u, msg, env) ==
    IF get_user(db, u) = NULL
    THEN Reply(db, ud, "access_denied")
    ELSE IF ~Has(ud, "selected_channel")
    THEN Reply(db, ud, "select_channel_first")
    ELSE IF msg.media_group_id # NULL
    THEN CollectGroup(db, ud, msg,
                      [id |-> msg.media_group_id[1], messages |-> <<>>,
                       channel |-> ud["selected_channel"]],
                      "group_received_wait")
    ELSE LET channel == ud["selected_channel"]
             caption == IF msg.caption = NULL THEN <<>> ELSE msg.caption[1]
             send == BotCall("send_photo", channel.telegram, caption)
             vk == publish_to_vk(channel, caption, <<msg>>, env.vk)
         IN  IF env.download = "raised"
             THEN Reply(db, ud, "publish_error")
             ELSE IF env.tg = "raised"
             THEN Result(db, ud, <<"publish_error">>, <<send>>, FALSE)
             ELSE Result(db, Pop(ud, "selected_channel"),
                         <<"photo_published", vk.status>>,
                         <<send>> \o vk.calls, FALSE)

\* handle_photo
handle_photo(db, ud, u, msg, env) ==
    IF ~is_user_approved(db, u)
    THEN Reply(db, ud, "access_denied")
    ELSE IF ~Has(ud, "selected_channel")
    THEN Reply(db, ud, "select_channel_first")
    ELSE IF msg.media_group_id # NULL
    THEN CollectGroup(db, ud, msg,
                      [id |-> msg.media_group_id[1], messages |-> <<>>,
                       channel |-> ud["selected_channel"]],
                      "group_received_wait")
    ELSE LET channel == ud["selected_channel"]
             caption == IF msg.caption = NULL THEN <<>> ELSE msg.caption[1]
             send == BotCall("send_photo", channel.telegram, caption)
             vk == publish_to_vk(channel, caption, <<msg>>, env.vk)
         IN  IF env.download = "raised"
             THEN Reply(db, ud, "publish_error")
             ELSE IF env.tg = "raised"
             THEN Result(db, ud, <<"publish_error">>, <<send>>, FALSE)
             ELSE Result(db, Pop(ud, "selected_channel"),
                         <<"photo_published", vk.status>>,
                         <<send>> \o vk.calls, FALSE)

\* handle_other_messages
handle_other_messages(db, ud, u, msg) ==
    IF ~is_user_approved(db, u)
    THEN Reply(db, ud, "access_denied")
    ELSE IF msg.media_group_id # NULL
    THEN CollectGroup(db, ud, msg,
                      [id |-> msg.media_group_id[1], messages |-> <<>>],
                      "group_received")
    ELSE IF Has(ud, "selected_channel")
    THEN Reply(db, ud, "use_text_or_photo")
    ELSE Result(db, ud, <<>>, <<>>, FALSE)

\* start_command: register_user, then the menu or the waiting notice
start_command(db, ud, u) ==
    LET registered == register_user(db, u) IN
    IF ~get_user(registered, u)[1].is_approved
    THEN Reply(registered, ud, "awaiting_approval")
    ELSE show_main_menu(registered, ud, u)

\* the handler `handler` has handled a message of user u with result r; the
\* channels examined have one name, chat and group
Handled(handler, u, r) ==
    /\ Len(r.db.channels) <= MaxChannels
    /\ \A c \in 1..Len(r.db.channels) :
          /\ r.db.channels[c].name = ChannelName
          /\ r.db.channels[c].telegram_channel = ChannelName
          /\ r.db.channels[c].vk_group_id = <<"1">>
    /\ \A k \in {"new_channel_name", "new_telegram_channel"} :
          Has(r.ud, k) => r.ud[k] = ChannelName
    /\ r.db.user_seq <= MaxUserIds
    /\ Has(r.ud, "media_group") =>
          Len(r.ud["media_group"]["messages"]) <= MaxGroup
    /\ bot_db' = r.db
    /\ user_data' = [user_data EXCEPT ![u] = r.ud]
    /\ update' = <<[handler |-> handler, user |-> u, replies |-> r.replies,
                    calls |-> r.calls, raised |-> r.raised]>>
    /\ UNCHANGED <<pool, now, storeVars, workerVars, hist, callVars>>

\* the texts the administrator and the other users send
BotTexts(u) ==
    IF u = AdminId
    THEN {Button.approve_all, Button.add_channel, ChannelName, <<"1">>}
    ELSE {Button.schedule, <<Emoji.clock, " ">> \o ChannelName,
          <<Emoji.horn, " ">> \o ChannelName, ChannelName,
          DateTimeText(MinLead), DateTimeText(MinLead + 1)}

\* a text message that is not a command arrives; a platform failure is
\* examined where the text is one that gets published
text_update(u, text) ==
    /\ bot_db.running
    /\ \E env \in IF text = ChannelName
                   THEN {env \in Envs : /\ env.download = "ok"
                                        /\ env.update_vk_token = "ok"}
                   ELSE {env \in Envs : \A f \in DOMAIN env : env[f] = "ok"} :
          Handled("handle_text_message_with_token", u,
                  handle_text_message_with_token(bot_db, user_data[u], u,
                                                 text, now, env))

\* a photo arrives; a platform failure is examined where the photo is one
\* that gets published, a photo of a media group being collected only
photo_update(u, msg) ==
    /\ bot_db.running
    /\ \E env \in IF msg.media_group_id = NULL
                   THEN {env \in Envs : env.update_vk_token = "ok"}
                   ELSE {env \in Envs : \A f \in DOMAIN env : env[f] = "ok"} :
          Handled("handle_photo", u,
                  handle_photo(bot_db, user_data[u], u, msg, env))

\* a message that is neither text nor photo arrives
other_update(u, msg) ==
    /\ bot_db.running
    /\ Handled("handle_other_messages", u,
               handle_other_messages(bot_db, user_data[u], u, msg))

\* /start arrives
start_update(u) ==
    /\ bot_db.running
    /\ Handled("start_command", u, start_command(bot_db, user_data[u], u))

\* a text arrives in the promotion dialogue. No button starts that
\* dialogue, so handle_admin_addition is applied to the text as the
\* add_admin_stage branch of handle_text_message would apply it
admin_addition_update(u, text) ==
    /\ bot_db.running
    /\ Handled("handle_admin_addition", u,
               handle_admin_addition(bot_db, user_data[u], text))

\* ------------------------------------------------------ the specification

\* the store is empty and not connected, the worker is not started
InitIdle ==
    /\ pool = FALSE
    /\ now = 0
    /\ users = {}
    /\ user_permissions = {}
    /\ channels = <<>>
    /\ scheduled_posts = <<>>
    /\ task = NULL
    /\ tasks = <<>>
    /\ stop_event = FALSE
    /\ stopPc = [c \in StopCallers |-> "idle"]
    /\ awaited = [c \in StopCallers |-> NULL]
    /\ hist = <<>>
    /\ init_bot

Init ==
    /\ InitIdle
    /\ input = NULL
    /\ output = NULL
    /\ vk_client = VKClient("vk1.a")

\* the process as the design wires it (spec.md, control flow): a front-end
\* user creates channels and posts, only the worker records outcomes, and
\* one coroutine calls stop()
Next ==
    \/ connect
    \/ close
    \/ upsert_user(FirstUser)
    \/ add_channel
    \/ schedule_post
    \/ Tick
    \/ start
    \/ stop_set(FirstCaller)
    \/ stop_join(FirstCaller)
    \/ Worker

Spec == Init /\ [][Next]_vars

\* the same process with store clients that also call deactivate_channel
\* and mark_post_sent themselves
NextStore ==
    \/ Next
    \/ deactivate_channel
    \/ mark_post_sent_call

SpecStore == Init /\ [][NextStore]_vars

\* every writing operation of Database: the front-end's calls, for any
\* user, and mark_post_sent as the worker calls it
NextCrud ==
    \/ connect
    \/ \E u \in TelegramIds : upsert_user(u) \/ delete_user(u)
    \/ add_channel
    \/ deactivate_channel
    \/ grant_permissions
    \/ revoke_permissions
    \/ schedule_post
    \/ start
    \/ Worker

SpecCrud == Init /\ [][NextCrud]_vars

\* a store that holds due posts: one user, one channel, pending posts
\* scheduled for the current time
InitDue ==
    /\ pool = TRUE
    /\ now = 0
    /\ users = {FirstUser}
    /\ user_permissions = {}
    /\ channels = <<[is_active |-> TRUE]>>
    /\ scheduled_posts =
          [i \in 1..(MaxRows - 1) |->
              [channel_id |-> 1, user_id |-> <<FirstUser>>, text |-> <<"C">>,
               media |-> NULL, scheduled_for |-> 0, status |-> "pending",
               sent_at |-> NULL]]
    /\ hist = [i \in 1..(MaxRows - 1) |-> NoHist]
    /\ task = NULL
    /\ tasks = <<>>
    /\ stop_event = FALSE
    /\ stopPc = [c \in StopCallers |-> "idle"]
    /\ awaited = [c \in StopCallers |-> NULL]
    /\ input = NULL
    /\ output = NULL
    /\ vk_client = VKClient("vk1.a")
    /\ init_bot

\* the worker on the due posts, with several coroutines that call stop()
\* and a store that may be closed and connected again
NextStop ==
    \/ connect
    \/ close
    \/ start
    \/ \E c \in StopCallers : stop_set(c) \/ stop_join(c)
    \/ Worker

SpecStop == InitDue /\ [][NextStop]_vars

\* asyncio runs every ready coroutine: the next step of each live Task is
\* eventually taken
LiveStop ==
    InitDue /\ [][NextStop]_vars
        /\ \A t \in 1..MaxTasks : WF_vars(t \in Tasks /\ run(t))

\* A backlog after downtime: one sent post, one post scheduled beyond the
\* clock's range, the posts of the deliveries that raised earlier (all but
\* one of the MaxFailures), and BatchLimit or more pending posts inserted in
\* an order that is not their scheduled_for order; the clock stands at
\* MaxTime - 1 or MaxTime, so some or all of the pending posts are due.
BacklogHead == 1 + MaxFailures
BacklogRow(i) ==
    IF i = 1
    THEN [channel_id |-> 1, user_id |-> <<FirstUser>>, text |-> <<"C">>,
          media |-> NULL, scheduled_for |-> 0,
          status |-> "sent", sent_at |-> <<0>>]
    ELSE IF i = 2
    THEN [channel_id |-> 1, user_id |-> <<FirstUser>>, text |-> <<"C">>,
          media |-> NULL, scheduled_for |-> MaxTime + 1,
          status |-> "pending", sent_at |-> NULL]
    ELSE IF i <= BacklogHead
    THEN [channel_id |-> 1, user_id |-> <<FirstUser>>, text |-> <<"C">>,
          media |-> NULL, scheduled_for |-> 0,
          status |-> "failed", sent_at |-> <<0>>]
    ELSE [channel_id |-> 1, user_id |-> <<FirstUser>>, text |-> <<"C">>,
          media |-> NULL, scheduled_for |-> i % (MaxTime + 1),
          status |-> "pending", sent_at |-> NULL]
BacklogHist(i) ==
    IF i = 1
    THEN [tg |-> "ok", vk |-> "ok", tgCalls |-> 1, vkCalls |-> 1,
          marks |-> 1, done |-> TRUE]
    ELSE IF i = 2 \/ i > BacklogHead
    THEN NoHist
    ELSE [tg |-> "raised", vk |-> "none", tgCalls |-> 1, vkCalls |-> 0,
          marks |-> 1, done |-> TRUE]

InitBacklog ==
    /\ pool = TRUE
    /\ now \in {MaxTime - 1, MaxTime}
    /\ users = {FirstUser}
    /\ user_permissions = {}
    /\ channels = <<[is_active |-> TRUE]>>
    /\ \E e \in 0..BacklogExtra :
          /\ scheduled_posts =
                [i \in 1..(BacklogHead + BatchLimit + e) |-> BacklogRow(i)]
          /\ hist = [i \in 1..(BacklogHead + BatchLimit + e) |-> BacklogHist(i)]
    /\ task = NULL
    /\ tasks = <<>>
    /\ stop_event = FALSE
    /\ stopPc = [c \in StopCallers |-> "idle"]
    /\ awaited = [c \in StopCallers |-> NULL]
    /\ input = NULL
    /\ output = NULL
    /\ vk_client = VKClient("vk1.a")
    /\ init_bot

\* the worker alone on the backlog
NextBacklog ==
    \/ start
    \/ Worker

SpecBacklog == InitBacklog /\ [][NextBacklog]_vars

\* the worker on the backlog, with a stop() caller
NextBacklogStop ==
    \/ NextBacklog
    \/ stop_set(FirstCaller)
    \/ stop_join(FirstCaller)

\* asyncio runs a ready coroutine, and every awaited call of the worker
\* returns or raises: the worker's next step is eventually taken
LiveBacklog == InitBacklog /\ [][NextBacklogStop]_vars /\ WF_vars(Worker)

\* the chat delivery of one post on its own: any text, any media list
InitChat ==
    /\ InitIdle
    /\ input \in [channel : {"@channel"},
                  text : {NULL, <<"">>, <<"C">>},
                  media : {NULL} \cup {<<m>> : m \in MediaLists(MaxMedia)}]
    /\ output = NULL
    /\ vk_client = VKClient("vk1.a")

SpecChat == InitChat /\ [][call_send_to_telegram]_vars

\* the wall delivery of one post on its own: any of the group ids, with
\* and without photos
InitVk ==
    /\ InitIdle
    /\ input \in [group_id : GroupIds,
                  message : {<<"C">>},
                  photo_files : {NULL, <<<<"photo.jpg">>>>}]
    /\ output = NULL
    /\ vk_client = VKClient("vk1.a")

SpecVk == InitVk /\ [][call_post_to_group]_vars


\* the wall delivery of one post, step by step: any text, any media list, a
\* group id that is accepted and one that is not
InitWall ==
    /\ InitIdle
    /\ input \in [channel : {"@channel"},
                  group_id : {<<"-", "1", "2">>,
                              <<"c", "l", "u", "b", "1", "2">>, <<"x">>},
                  text : {NULL, <<"">>, <<"C">>},
                  media : {NULL} \cup {<<m>> : m \in MediaLists(MaxMedia)}]
    /\ output = NULL
    /\ vk_client = VKClient("vk1.a")

NextWall ==
    \/ send_to_vk_enter
    \/ send_to_vk_get_file
    \/ send_to_vk_download
    \/ post_to_group_enter
    \/ post_to_group_wall_post
    \/ post_to_group_photo_wall

SpecWall == InitWall /\ [][NextWall]_vars

\* the wall delivery of one post in its thread while update_token calls
\* replace the token of the client
SpecToken == InitWall /\ [][NextWall \/ update_token]_vars

\* the bot of bot.py: users who register, write texts and send photos and
\* other messages, among them the administrator
SpecBot ==
    /\ Init
    /\ [][\E u \in BotIds :
             \/ start_update(u)
             \/ \E text \in BotTexts(u) : text_update(u, text)
             \/ \E msg \in Messages(TRUE) : photo_update(u, msg)
             \/ \E msg \in {m \in Messages(FALSE) : m.media_group_id = NULL} :
                   other_update(u, msg)]_vars

\* the bot with channels that are added and deleted while users choose them:
\* the administrator approves, adds a channel, deletes it and chooses it; a
\* user chooses a channel by name in either menu, also by a name no channel
\* has
SpecSelect ==
    /\ Init
    /\ [][\E u \in BotIds :
             \/ start_update(u)
             \/ \E text \in
                    IF u = AdminId
                    THEN {Button.approve_all, Button.add_channel, ChannelName,
                          <<"1">>, Button.delete_channel,
                          <<Emoji.bin, Emoji.vs16, " ">> \o ChannelName,
                          <<Emoji.horn, " ">> \o ChannelName}
                    ELSE {<<Emoji.horn, " ">> \o ChannelName,
                          <<Emoji.clock, " ">> \o ChannelName,
                          <<Emoji.horn, " ", "X">>} :
                    text_update(u, text)]_vars

\* the bot with immediate publications: the administrator approves and adds
\* a channel; a user chooses it in the publishing menu and sends texts,
\* photos and other messages, alone or as parts of a media group
SpecPublish ==
    /\ Init
    /\ [][\E u \in BotIds :
             \/ start_update(u)
             \/ \E text \in
                    IF u = AdminId
                    THEN {Button.approve_all, Button.add_channel, ChannelName,
                          <<"1">>}
                    ELSE {<<Emoji.horn, " ">> \o ChannelName, ChannelName} :
                    text_update(u, text)
             \/ \E msg \in Messages(TRUE) : photo_update(u, msg)
             \/ \E msg \in Messages(FALSE) : other_update(u, msg)]_vars

\* the rights of bot.py: users register, the administrator approves them,
\* adds the channel and deletes it, and users are promoted
SpecRights ==
    /\ Init
    /\ [][\/ \E u \in BotIds : start_update(u)
          \/ \E text \in {Button.approve_all, Button.add_channel, ChannelName,
                          <<"1">>, Button.delete_channel,
                          <<Emoji.bin, Emoji.vs16, " ">> \o ChannelName} :
                text_update(AdminId, text)
          \/ \E u \in BotIds : admin_addition_update(AdminId, py_str(u))]_vars

\* registration again: upsert_user on a table of users with any rights and
\* any names, for a key the table holds and for one it does not; and in
\* bot.py /start from users who are registered, approved or promoted
InitRegister ==
    /\ InitIdle
    /\ input \in [table : {[k \in {} |-> NULL]} \cup
                           {FirstUser :> row :
                               row \in [username : {NULL, <<"a">>},
                                        first_name : {<<"A">>},
                                        last_name : {NULL, <<"B">>},
                                        is_admin : BOOLEAN,
                                        is_approved : BOOLEAN]},
                   telegram_id : TelegramIds,
                   username : {NULL, <<"a">>},
                   first_name : {<<"A">>, <<"C">>},
                   last_name : {NULL, <<"B">>}]
    /\ output = NULL
    /\ vk_client = VKClient("vk1.a")

SpecRegister ==
    /\ InitRegister
    /\ [][\/ call_upsert_user
          \/ \E u \in BotIds : start_update(u)
          \/ text_update(AdminId, Button.approve_all)
          \/ \E u \in BotIds : admin_addition_update(AdminId, py_str(u))]_vars
\* ------------------------------------------------------------- the claims

PostIds == 1..Len(scheduled_posts)
Terminal(i) == scheduled_posts[i].status \in {"sent", "failed"}
Attempted(i) == hist[i].tgCalls > 0 \/ hist[i].vkCalls > 0
\* task t is a live _run coroutine at the given position
At(t, where) == tasks[t].state = "running" /\ tasks[t].pc = where
InBatch(i) ==
    \E t \in Tasks : \E k \in 1..Len(tasks[t].posts) : tasks[t].posts[k].id = i
\* a worker is between the fetch of post i and the recording of its outcome
AtPost(i) ==
    \E t \in Tasks :
        /\ tasks[t].state = "running"
        /\ tasks[t].pc \in {"send_to_telegram", "send_to_vk",
                            "mark_post_sent", "except"}
        /\ tasks[t].posts[tasks[t].idx].id = i
\* the iteration of task t that fetched its `posts` is over: the loop waits,
\* or the task ended
IterationOver(t) == tasks[t].pc \in {"wait", "raise_except"}

\* C1: the worker delivers only posts that were pending and due (scheduled_for
\* <= now) when due_posts() fetched them: every fetched row is pending and due,
\* the post in delivery is a fetched row, and no post is attempted before its
\* scheduled_for time.
C1_DeliveryOnlyOfDuePending ==
    /\ \A t \in Tasks : \A k \in 1..Len(tasks[t].posts) :
          LET row == tasks[t].posts[k] IN
          /\ row.status = "pending"
          /\ row.scheduled_for <= now
          /\ row.scheduled_for = scheduled_posts[row.id].scheduled_for
    /\ \A i \in PostIds :
          Attempted(i) => /\ scheduled_posts[i].scheduled_for <= now
                          /\ (~hist[i].done => scheduled_posts[i].status = "pending")

\* a post is in delivery while another post is stored that is not yet due
C1_Witness ==
    /\ \E t \in Tasks : At(t, "send_to_vk")
    /\ \E j \in PostIds :
          /\ scheduled_posts[j].scheduled_for > now
          /\ scheduled_posts[j].status = "pending"
          /\ ~Attempted(j)

\* C3: a processed post whose delivery completed is sent, one whose delivery
\* raised is failed, and no post the worker has left is still pending.
C3_OutcomeMatchesDelivery ==
    \A i \in PostIds :
        (Attempted(i) /\ ~AtPost(i)) =>
            /\ (hist[i].tg = "ok" /\ hist[i].vk = "ok")
                  => scheduled_posts[i].status = "sent"
            /\ (hist[i].tg = "raised" \/ hist[i].vk = "raised")
                  => scheduled_posts[i].status = "failed"
            /\ scheduled_posts[i].status # "pending"

\* C4: the status stays in {pending, sent, failed} and never changes once it
\* is sent or failed.
C4_StatusMonotonic ==
    /\ [](\A i \in PostIds :
             scheduled_posts[i].status \in {"pending", "sent", "failed"})
    /\ [][\A i \in PostIds :
             Terminal(i) =>
                 scheduled_posts'[i].status = scheduled_posts[i].status]_vars

\* C5: sent_at is NULL exactly while the post is pending, is written at the
\* step where the status leaves pending, and is never written again.
C5_SentAtWrittenOnce ==
    /\ [](\A i \in PostIds :
             (scheduled_posts[i].status = "pending")
                 <=> (scheduled_posts[i].sent_at = NULL))
    /\ [][\A i \in PostIds :
             scheduled_posts[i].sent_at # NULL =>
                 scheduled_posts'[i].sent_at = scheduled_posts[i].sent_at]_vars

\* C6: when the iteration that fetched a batch is over, every post of the
\* batch has been attempted and has a terminal status, whichever deliveries
\* raised.
C6_BatchCompleted ==
    \A t \in Tasks :
        IterationOver(t) =>
            \A k \in 1..Len(tasks[t].posts) :
                /\ Attempted(tasks[t].posts[k].id)
                /\ Terminal(tasks[t].posts[k].id)

\* C7: no exception raised while a post is processed leaves the worker loop:
\* the task never ends in the except handler, and it ends only after a stop
\* signal.
C7_NoPostExceptionEscapes ==
    \A t \in Tasks :
        /\ tasks[t].pc # "raise_except"
        /\ (tasks[t].state = "finished" => stop_event)

\* C8: for every post the worker has processed, a wall call that raised was
\* preceded by a chat attempt, and a chat call that raised was followed by a
\* wall attempt.
C8_DeliveriesIsolated ==
    \A i \in PostIds :
        /\ (hist[i].vk = "raised" => hist[i].tg # "none")
        /\ ((hist[i].tg = "raised" /\ hist[i].done) => hist[i].vk # "none")

\* C10: a failed post stays failed, no platform call is made for it and no
\* later poll fetches it.
C10_FailedIsTerminal ==
    [][\A i \in PostIds :
          scheduled_posts[i].status = "failed" =>
              /\ scheduled_posts'[i].status = "failed"
              /\ hist'[i].tgCalls = hist[i].tgCalls
              /\ hist'[i].vkCalls = hist[i].vkCalls
              /\ \A t \in Tasks :
                    tasks'[t].posts # tasks[t].posts =>
                        \A k \in 1..Len(tasks'[t].posts) :
                            tasks'[t].posts[k].id # i]_vars

\* a later poll delivers another post while a failed post is stored
C10_Witness ==
    /\ \E t \in Tasks : At(t, "send_to_telegram")
    /\ \E i \in PostIds :
          /\ scheduled_posts[i].status = "failed"
          /\ scheduled_posts[i].scheduled_for <= now
          /\ ~InBatch(i)

\* the posts a poll at the current time has to choose from
DueNow ==
    {i \in PostIds : /\ scheduled_posts[i].status = "pending"
                     /\ scheduled_posts[i].scheduled_for <= now}

\* C2: due_posts() returns only pending posts with scheduled_for <= now, each
\* once, in non-decreasing scheduled_for order; of k such posts it returns
\* min(k, 25), and no post left out is scheduled earlier than a returned one.
C2_DuePostsSelection ==
    \A tie \in TieOrders :
    \A r \in {due_posts(scheduled_posts, channels, now, tie)} :
    \A due \in {DueNow} :
    \A ids \in {{r[k].id : k \in 1..Len(r)}} :
        /\ ids \subseteq due
        /\ Cardinality(ids) = Len(r)
        /\ \A k \in 1..Len(r) :
              /\ r[k].status = "pending"
              /\ r[k].scheduled_for = scheduled_posts[r[k].id].scheduled_for
              /\ r[k].scheduled_for <= now
        /\ \A k \in 1..(Len(r) - 1) :
              r[k].scheduled_for <= r[k + 1].scheduled_for
        /\ Len(r) = IF Cardinality(due) <= 25 THEN Cardinality(due) ELSE 25
        /\ \A i \in due \ ids : \A k \in 1..Len(r) :
              r[k].scheduled_for <= scheduled_posts[i].scheduled_for

\* more than 25 posts are due, beside a sent post and a post not yet due
C2_Witness ==
    /\ Cardinality(DueNow) > 25
    /\ \E i \in PostIds : scheduled_posts[i].status = "sent"
    /\ \E i \in PostIds : scheduled_posts[i].scheduled_for > now
    /\ \E i, j \in DueNow :
          i < j /\ scheduled_posts[i].scheduled_for > scheduled_posts[j].scheduled_for

\* a worker loop is alive: started, not ended, no stop signal
Alive == ~stop_event /\ \E t \in Tasks : tasks[t].state = "running"

\* C9: a poll fetches min(k, 25) of the k due posts; when the iteration is
\* through, exactly the fetched posts have been attempted and the others are
\* left for later polls; and while the worker stays alive, the due pending
\* posts all reach sent or failed.
C9_BacklogDrained ==
    /\ [](\A t \in Tasks :
             (At(t, "send_to_telegram") /\ tasks[t].idx = 1) =>
                 Len(tasks[t].posts) = Min(Cardinality(DueNow), 25))
    /\ [](\A t \in Tasks :
             At(t, "wait") =>
                 /\ \A k \in 1..Len(tasks[t].posts) :
                       /\ hist[tasks[t].posts[k].id].tgCalls = 1
                       /\ Terminal(tasks[t].posts[k].id)
                 /\ \A i \in PostIds :
                       scheduled_posts[i].status = "pending" => ~Attempted(i))
    /\ []<>(~Alive \/ DueNow = {})

\* the first poll of a backlog of more than 25 due posts is through: 25 are
\* terminal, the rest still pending and due
C9_Witness ==
    /\ \E t \in Tasks : At(t, "wait") /\ Len(tasks[t].posts) = 25
    /\ DueNow # {}
    /\ Alive

\* C11: with the single worker, no post gets more than one chat call, more
\* than one wall call or more than one status write, and every post the
\* worker has attempted and left has exactly one status write.
C11_DeliveredOnceMarkedOnce ==
    \A i \in PostIds :
        /\ hist[i].tgCalls <= 1
        /\ hist[i].vkCalls <= 1
        /\ hist[i].marks <= 1
        /\ (Attempted(i) /\ ~AtPost(i)) => hist[i].marks = 1

\* C12: no step removes a scheduled post or changes the channel or time of
\* one, so the stored post ids only grow; and a step that changes channels,
\* users or permissions leaves every post's status and sent_at as they were.
C12_PostsAppendOnly ==
    [][/\ Len(scheduled_posts') >= Len(scheduled_posts)
       /\ \A i \in PostIds :
             /\ scheduled_posts'[i].channel_id = scheduled_posts[i].channel_id
             /\ scheduled_posts'[i].scheduled_for = scheduled_posts[i].scheduled_for
       /\ (channels' # channels \/ users' # users
              \/ user_permissions' # user_permissions) =>
             \A i \in PostIds :
                /\ scheduled_posts'[i].status = scheduled_posts[i].status
                /\ scheduled_posts'[i].sent_at = scheduled_posts[i].sent_at]_vars

\* a sent or failed post is stored whose channel has been deactivated and
\* whose user has been deleted
C12_Witness ==
    \E i \in PostIds :
        /\ Terminal(i)
        /\ scheduled_posts[i].user_id = NULL
        /\ ~channels[scheduled_posts[i].channel_id].is_active

\* C13: once the stop signal is set, a task whose iteration is over (it
\* waits, or its loop has exited) has attempted every post it fetched in that
\* iteration and each has a terminal status; and the step that sets the
\* signal leaves every task and every delivery as it was.
C13_StopCompletesBatch ==
    /\ [](\A t \in Tasks :
             (stop_event /\ (tasks[t].state # "running" \/ tasks[t].pc = "wait")) =>
                 \A k \in 1..Len(tasks[t].posts) :
                     /\ Attempted(tasks[t].posts[k].id)
                     /\ Terminal(tasks[t].posts[k].id))
    /\ [][(stop_event' # stop_event) => (tasks' = tasks /\ hist' = hist)]_vars

\* caller c's stop() returns in this step
Returns(c) ==
    /\ stopPc'[c] = "returned"
    /\ stop_set(c) \/ stop_join(c)
\* the Task caller c's stop() found in self._task, if any
Joined(c) ==
    IF stopPc[c] = "await" THEN awaited[c] ELSE task

\* C14: at the step where a stop() call returns, the Task it joined (the one
\* it found in self._task) has left its loop through the while condition, no
\* Task is between the fetch of a post and the recording of its outcome, and
\* every post a delivery was started for has a terminal status.
C14_StopJoins ==
    [][\A c \in StopCallers :
          Returns(c) =>
              /\ Joined(c) # NULL =>
                    /\ tasks'[Joined(c)[1]].state = "finished"
                    /\ tasks'[Joined(c)[1]].pc = "return"
              /\ \A i \in PostIds :
                    Attempted(i) => (~AtPost(i) /\ Terminal(i))]_vars

\* a stop() call has returned after the worker delivered a post
C14_Witness ==
    /\ \E c \in StopCallers : stopPc[c] = "returned"
    /\ \E i \in PostIds : hist[i].done
    /\ \E t \in Tasks : tasks[t].pc = "return"

\* C15: no stop() call raises, and a stop() call that has ended leaves the
\* worker with no task.
C15_StopNeverRaises ==
    /\ [](\A c \in StopCallers : stopPc[c] # "raised")
    /\ [][\A c \in StopCallers :
             ((stop_set(c) \/ stop_join(c)) /\ stopPc'[c] # "await") =>
                 task' = NULL]_vars

\* C16: a wait ends at the loop condition; with the stop signal set the
\* condition ends the loop, so no fetch begins after the signal, and a task
\* waiting when the signal is set finishes; without the signal the condition
\* leads to the next fetch, which a waiting task reaches unless stopped.
C16_StopEndsWait ==
    /\ [][\A t \in Tasks :
             /\ (tasks[t].pc = "wait" /\ tasks'[t].pc # "wait") =>
                   tasks'[t].pc = "while"
             /\ (tasks[t].pc = "while" /\ tasks'[t].pc # "while") =>
                   tasks'[t].pc = IF stop_event THEN "return" ELSE "due_posts"
             /\ (tasks[t].pc # "due_posts" /\ tasks'[t].pc = "due_posts") =>
                   ~stop_event]_vars
    /\ \A t \in 1..MaxTasks :
          /\ (t \in Tasks /\ stop_event /\ At(t, "wait"))
                ~> (t \in Tasks /\ tasks[t].state = "finished")
          /\ (t \in Tasks /\ At(t, "wait"))
                ~> (stop_event \/ (t \in Tasks /\ tasks[t].pc = "due_posts"))

\* a task waits after a batch of posts while the stop signal is set
C16_Witness ==
    /\ stop_event
    /\ \E t \in Tasks : At(t, "wait") /\ tasks[t].posts # <<>>

\* the media list of the delivery examined: the stored list, none if null
InputMedia == IF input.media = NULL THEN <<>> ELSE input.media[1]
\* the text of the delivery examined: the stored text, empty if null
InputText == IF input.text = NULL THEN <<"">> ELSE input.text

\* C17: chat delivery makes exactly one bot call, to the post's channel:
\* send_message with the text for no media (or null media), send_photo with
\* the item and the text as caption for one item, send_media_group with all
\* items in their stored order for two or more.
C17_OneChatCallByMediaCount ==
    output # NULL =>
        LET calls == output[1].calls
            n == Len(InputMedia)
        IN  /\ Len(calls) = 1
            /\ calls[1].chat_id = input.channel
            /\ n = 0 => /\ calls[1].method = "send_message"
                        /\ calls[1].text = InputText
            /\ n = 1 => /\ calls[1].method = "send_photo"
                        /\ calls[1].photo = <<InputMedia[1].file_id>>
                        /\ calls[1].caption = InputText
            /\ n >= 2 => /\ calls[1].method = "send_media_group"
                         /\ Len(calls[1].media[1]) = n
                         /\ \A k \in 1..n :
                               calls[1].media[1][k].media = InputMedia[k].file_id

\* one photo was sent with the caption "C"
C17_Witness ==
    /\ output # NULL
    /\ Len(InputMedia) = 1
    /\ input.text = <<"C">>
    /\ output[1].calls[1].method = "send_photo"

\* C18: an album of n >= 2 media items has exactly n items in media order,
\* the first with the post's text as caption and every other with none.
C18_AlbumCaptionOnFirst ==
    (output # NULL /\ Len(InputMedia) >= 2) =>
        LET group == output[1].calls[1].media[1]
            n == Len(InputMedia)
        IN  /\ Len(group) = n
            /\ \A k \in 1..n : group[k].media = InputMedia[k].file_id
            /\ group[1].caption = input.text
            /\ \A k \in 2..n : group[k].caption = NULL

\* an album of three items was sent for a post with text "C"
C18_Witness ==
    /\ output # NULL
    /\ Len(InputMedia) = 3
    /\ input.text = <<"C">>
    /\ output[1].calls[1].method = "send_media_group"

\* the largest id written with MaxDigits digits
MaxGroupId == 10 ^ MaxDigits - 1
\* the wall.post call of the delivery examined (its last call)
WallPost == output[1].calls[Len(output[1].calls)]

\* the texts of community n: "n", "-n" and "clubn", with or without blanks
\* around them
GroupIdTexts(n) ==
    {Pad(l) \o form \o Pad(r) :
        l \in 0..MaxPad, r \in 0..MaxPad,
        form \in {Decimal(n), <<"-">> \o Decimal(n),
                  <<"c", "l", "u", "b">> \o Decimal(n)}}
TextsOfGroupIds ==
    UNION {{<<n, s>> : s \in GroupIdTexts(n)} : n \in 1..MaxGroupId}

\* C19: for every n >= 1 the group ids "n", "-n" and "clubn", with or
\* without blanks around them, are accepted and give owner_id -n.
C19_GroupIdFormsAgree ==
    output # NULL =>
        \A n \in 1..MaxGroupId :
            <<n, input.group_id>> \in TextsOfGroupIds =>
                /\ ~output[1].raised
                /\ WallPost.method = "wall.post"
                /\ WallPost.id = 0 - n

\* " club12 " was posted to owner_id -12
C19_Witness ==
    /\ output # NULL
    /\ input.group_id = <<" ", "c", "l", "u", "b", "1", "2", " ">>
    /\ ~output[1].raised
    /\ WallPost.id = 0 - 12

\* C20: for every group id that post_to_group accepts, the owner_id of the
\* wall.post call is negative, the group_id of the photo upload is its
\* absolute value, and normalizing the decimal text of the owner_id gives
\* the owner_id again.
C20_OwnerIdNegative ==
    (output # NULL /\ ~output[1].raised) =>
        /\ WallPost.method = "wall.post"
        /\ WallPost.id < 0
        /\ \A k \in 1..Len(output[1].calls) :
              output[1].calls[k].method = "photo_wall" =>
                  /\ output[1].calls[k].id >= 0
                  /\ output[1].calls[k].id \in {WallPost.id, 0 - WallPost.id}
        /\ normalize_group_id(py_str(WallPost.id))
              = [raised |-> FALSE, value |-> WallPost.id]

\* C21: a fetch returns no post whose channel is inactive, and the worker
\* makes no platform call for a post whose channel is inactive.
C21_InactiveChannelExcluded ==
    [][\A t \in Tasks :
          /\ tasks'[t].posts # tasks[t].posts =>
                \A k \in 1..Len(tasks'[t].posts) :
                    channels[tasks'[t].posts[k].channel_id].is_active
          /\ \A i \in PostIds :
                (hist'[i].tgCalls # hist[i].tgCalls
                    \/ hist'[i].vkCalls # hist[i].vkCalls) =>
                        channels[scheduled_posts[i].channel_id].is_active]_vars


\* C22: no scheduled post is created for a channel that is inactive at the
\* moment of the insertion.
C22_NoPostForInactiveChannel ==
    [][\A i \in 1..Len(scheduled_posts') :
          i > Len(scheduled_posts) =>
              channels[scheduled_posts'[i].channel_id].is_active]_vars

\* the tasks that are between the fetch of a post and the recording of its
\* outcome
Delivering ==
    {t \in Tasks : /\ tasks[t].state = "running"
                   /\ tasks[t].pc \in {"send_to_telegram", "send_to_vk",
                                       "mark_post_sent", "except"}}

\* C23: at most one task is delivering a post; the posts of the batch before
\* the one in delivery all have a terminal status; the chat call of a post is
\* made when no call was made for it yet, and the wall call when its chat
\* call has returned.
C23_SequentialDelivery ==
    /\ Cardinality(Delivering) <= 1
    /\ \A t \in Delivering :
          LET id == tasks[t].posts[tasks[t].idx].id IN
          /\ \A k \in 1..(tasks[t].idx - 1) : Terminal(tasks[t].posts[k].id)
          /\ tasks[t].pc = "send_to_telegram" =>
                hist[id].tgCalls = 0 /\ hist[id].vkCalls = 0
          /\ tasks[t].pc = "send_to_vk" =>
                hist[id].tg = "ok" /\ hist[id].tgCalls = 1 /\ hist[id].vkCalls = 0
    /\ \A i \in PostIds : hist[i].tgCalls <= 1 /\ hist[i].vkCalls <= hist[i].tgCalls

\* the second post of a batch is in its wall call after the first one failed
C23_Witness ==
    \E t \in Delivering :
        /\ tasks[t].idx = 2
        /\ tasks[t].pc = "send_to_vk"
        /\ scheduled_posts[tasks[t].posts[1].id].status = "failed"

\* the scheduled_for of the k-th fetched post of task t
FetchedFor(t, k) == scheduled_posts[tasks[t].posts[k].id].scheduled_for

\* C24: when a delivery attempt starts for a post of a fetched batch, every
\* post of the batch attempted before it is scheduled no later, and every post
\* of the batch not yet attempted is scheduled no earlier.
C24_AttemptsInScheduledOrder ==
    [][\A t \in Tasks : \A k \in 1..Len(tasks[t].posts) :
          hist'[tasks[t].posts[k].id].tgCalls > hist[tasks[t].posts[k].id].tgCalls
          => \A j \in 1..Len(tasks[t].posts) :
                /\ Attempted(tasks[t].posts[j].id) =>
                      FetchedFor(t, j) <= FetchedFor(t, k)
                /\ (j # k /\ ~Attempted(tasks[t].posts[j].id)) =>
                      FetchedFor(t, k) <= FetchedFor(t, j)]_vars

\* a batch whose order differs from the insertion order is in delivery, past a
\* failed post and past the first post of a later time
C24_Witness ==
    \E t \in Delivering :
        /\ \E j, k \in 1..Len(tasks[t].posts) :
              j < k /\ tasks[t].posts[j].id > tasks[t].posts[k].id
        /\ \E j \in 1..(tasks[t].idx - 1) :
              scheduled_posts[tasks[t].posts[j].id].status = "failed"
        /\ FetchedFor(t, 1) < FetchedFor(t, tasks[t].idx)

\* the tasks whose loop is past its first test of the stop event
Looping == {t \in Tasks : tasks[t].state = "running" /\ tasks[t].pc # "while"}

\* C25: at most one task is in the worker loop; as long as stop() was never
\* called, at most one task was ever created, and it is the one self._task
\* holds: a start() that finds a task creates none and leaves it in place.
C25_OneWorkerTask ==
    /\ Cardinality(Looping) <= 1
    /\ ~stop_event =>
          /\ Len(tasks) <= 1
          /\ task = NULL <=> tasks = <<>>
          /\ task # NULL => task = <<1>>

\* the task of the first start() is in the middle of a batch and stop() was
\* never called: every further start() finds self._task set
C25_Witness ==
    /\ ~stop_event
    /\ task = <<1>>
    /\ tasks[1].state = "running"
    /\ tasks[1].pc = "send_to_vk"
    /\ tasks[1].idx = 2

\* the calls of the wall delivery in progress with the given method
WallCalls(method) ==
    {k \in 1..Len(Wall.calls) : Wall.calls[k].method = method}
\* the text the chat delivery of the same post carries: the text of the
\* message, or the caption of the photo or of the first album item
ChatText ==
    LET call == send_to_telegram_calls(input.channel, input.text,
                                       OrNoMedia(input.media))[1]
    IN  IF call.method = "send_message" THEN call.text[1]
        ELSE IF call.method = "send_photo" THEN call.caption[1]
        ELSE OrEmpty(call.media[1][1].caption)

\* C26: in the wall delivery of a post with media, the upload is called only
\* after every media item was fetched and downloaded, in media order; the
\* wall entry is posted at most once, only after the upload, and exactly once
\* when the delivery returns, with one reference for each media item in media
\* order and the text of the chat delivery ("" when the text is absent); and
\* when a download or the upload raised, no wall entry is posted and the
\* delivery has raised.
C26_WallDeliveryWithMedia ==
    (output # NULL /\ InputMedia # <<>>) =>
        LET n == Len(InputMedia)
            calls == Wall.calls
            posts == WallCalls("wall.post")
            uploads == WallCalls("photo_wall")
        IN  /\ Cardinality(posts) <= 1
            /\ Cardinality(uploads) <= 1
            /\ \A u \in uploads :
                  /\ u = 2 * n + 1
                  /\ \A k \in 1..n :
                        /\ calls[2 * k - 1] =
                              WallCall("get_file", InputMedia[k].file_id, NULL, NULL)
                        /\ calls[2 * k] =
                              WallCall("download_as_bytearray",
                                       InputMedia[k].file_id, NULL, NULL)
                  /\ calls[u].items =
                        <<[k \in 1..n |-> BytesOf(InputMedia[k].file_id)]>>
            /\ \A p \in posts :
                  /\ p = 2 * n + 2
                  /\ uploads = {p - 1}
                  /\ calls[p].message = <<OrEmpty(input.text)>>
                  /\ calls[p].message = <<ChatText>>
                  /\ calls[p].items =
                        <<Join([k \in 1..n |->
                                   <<"photo", Wall.owner_id, "_",
                                     BytesOf(InputMedia[k].file_id)>>])>>
            /\ Wall.pc = "returned" => Cardinality(posts) = 1
            /\ (Wall.pc = "raised" /\ calls[Len(calls)].method # "wall.post")
                  => posts = {}

\* three photos were downloaded and uploaded and the wall entry was posted,
\* for a post without text
C26_Witness ==
    /\ output # NULL
    /\ Len(InputMedia) = 3
    /\ input.text = NULL
    /\ Wall.pc = "returned"
    /\ InputMedia[1].file_id # InputMedia[2].file_id

\* C27: a step that deletes a user removes that user and that user's grants
\* and nothing else of users and grants, and keeps every scheduled post, with
\* user_id set to null on the posts of that user and every other column of
\* every post as it was; and a pending due post without a user is among the
\* posts due_posts() returns.
C27_DeleteUserKeepsPosts ==
    /\ [][\A u \in users \ users' :
             /\ users' = users \ {u}
             /\ user_permissions' = {p \in user_permissions : p[1] # u}
             /\ channels' = channels
             /\ Len(scheduled_posts') = Len(scheduled_posts)
             /\ \A i \in PostIds :
                   scheduled_posts'[i] =
                       IF scheduled_posts[i].user_id = <<u>>
                       THEN [scheduled_posts[i] EXCEPT !.user_id = NULL]
                       ELSE scheduled_posts[i]]_vars
    /\ [](\A i \in DueNow :
             scheduled_posts[i].user_id = NULL =>
                 \A tie \in TieOrders :
                     \E k \in 1..Len(due_posts(scheduled_posts, channels, now, tie)) :
                         due_posts(scheduled_posts, channels, now, tie)[k].id = i)

\* a post fetched after its user was deleted is in its wall call, and no
\* user is left
C27_Witness ==
    /\ users = {}
    /\ \E t \in Delivering :
          /\ tasks[t].pc = "send_to_vk"
          /\ tasks[t].posts[tasks[t].idx].user_id = NULL

\* C28: every scheduled post is stored with scheduled_for strictly later than
\* the moment of its insertion: a step that appends rows to scheduled_posts
\* appends only rows whose scheduled_for is later than the clock of that step.
C28_StoredInTheFuture ==
    [][\A i \in DOMAIN scheduled_posts' :
          i > Len(scheduled_posts) => scheduled_posts'[i].scheduled_for > now]_vars

\* the texts of BotTexts that are no button and no channel choice
PlainTexts == {ChannelName, DateTimeText(MinLead), DateTimeText(MinLead + 1)}

\* user u has chosen a channel in the scheduling menu and a date and time
\* have been accepted
AwaitingContent(u) ==
    /\ is_user_approved(bot_db, u)
    /\ Has(user_data[u], "schedule_stage")
    /\ user_data[u]["schedule_stage"] = "awaiting_content"
    /\ \A k \in {"setup_stage", "delete_channel_stage", "delete_user_stage",
                 "add_admin_stage"} : ~Has(user_data[u], k)

\* the row the content step is to insert for user u and the text
ScheduledRow(u, text) ==
    [user_id |-> get_user(bot_db, u)[1].id,
     channel_id |-> user_data[u]["selected_channel"].id,
     message_text |-> text,
     scheduled_time |-> user_data[u]["scheduled_time"],
     is_published |-> FALSE]

\* C29: when user u is at schedule_stage = awaiting_content, the handling of
\* the next plain text of u appends exactly one row to scheduled_posts, with
\* the id of u, the id of the selected channel, the text and the accepted
\* time, clears the user_data of u and replies with the confirmation.
C29_ContentStepStoresPost ==
    [][\A u \in BotIds : \A text \in PlainTexts :
          (AwaitingContent(u) /\ text_update(u, text)) =>
              /\ bot_db'.scheduled_posts =
                     Append(bot_db.scheduled_posts, ScheduledRow(u, text))
              /\ user_data'[u] = EmptyDict
              /\ update'[1].replies = <<"post_scheduled">>
              /\ ~update'[1].raised]_vars

\* the handlers of text, photo and other messages
MessageHandlers ==
    {"handle_text_message_with_token", "handle_photo", "handle_other_messages"}

\* C30: the handling of a text, a photo or another message of a user who is
\* unregistered or not approved when it is handled changes nothing in the
\* tables of bot.db (channels, users, permissions, scheduled posts), makes no
\* call to Telegram or VK, and produces the access-denied reply and nothing
\* else.
C30_UnapprovedOnlyDenied ==
    [][(/\ update' # NULL
        /\ update'[1].handler \in MessageHandlers
        /\ ~is_user_approved(bot_db, update'[1].user)) =>
           /\ bot_db' = bot_db
           /\ user_data' = user_data
           /\ update'[1].calls = <<>>
           /\ update'[1].replies = <<"access_denied">>
           /\ ~update'[1].raised]_vars

\* a photo of a registered user who is not approved has been answered with
\* the denial, while a channel exists
C30_Witness ==
    /\ update # NULL
    /\ update[1].handler = "handle_photo"
    /\ update[1].user = FirstUser
    /\ update[1].replies = <<"access_denied">>
    /\ get_user(bot_db, FirstUser) # NULL
    /\ ~is_user_approved(bot_db, FirstUser)
    /\ Len(bot_db.channels) > 0

\* channel dict ch is an active channel that user u may target: u holds a
\* can_post grant for it, or created it, or is an admin
Targetable(u, ch) ==
    \E c \in 1..Len(bot_db.channels) :
        /\ bot_db.channels[c].is_active
        /\ ch = [id |-> c, name |-> bot_db.channels[c].name,
                 telegram |-> bot_db.channels[c].telegram_channel,
                 vk_group_id |-> bot_db.channels[c].vk_group_id]
        /\ \/ <<get_user(bot_db, u)[1].id, c>> \in bot_db.user_permissions
           \/ bot_db.channels[c].created_by = get_user(bot_db, u)[1].id
           \/ get_user(bot_db, u)[1].is_admin

\* the texts that choose a channel, in the publishing or the scheduling menu
ChoiceTexts ==
    {<<Emoji.horn, " ">> \o ChannelName, <<Emoji.clock, " ">> \o ChannelName,
     <<Emoji.horn, " ", "X">>}

\* the replies of a successful choice
Selected == {<<"channel_selected">>, <<"channel_selected_for_schedule">>}

\* C31: a step that sets or changes the selected_channel of a user, or that
\* answers a channel choice with success, leaves as selected_channel a
\* channel that is active and that the user may target in the state the
\* message is handled in; and a channel choice of an approved user whose
\* name is the name of no such channel leaves the user's user_data as it
\* was and is answered with the not-found reply only.
C31_SelectionIsTargetable ==
    [][\A u \in BotIds :
          /\ (/\ Has(user_data'[u], "selected_channel")
              /\ \/ ~Has(user_data[u], "selected_channel")
                 \/ user_data'[u]["selected_channel"] #
                        user_data[u]["selected_channel"]
                 \/ update'[1].user = u /\ update'[1].replies \in Selected)
                => /\ is_user_approved(bot_db, u)
                   /\ Targetable(u, user_data'[u]["selected_channel"])
          /\ \A text \in ChoiceTexts :
                (/\ text_update(u, text)
                 /\ is_user_approved(bot_db, u)
                 /\ ~\E c \in 1..Len(bot_db.channels) :
                        /\ bot_db.channels[c].name = SubSeq(text, 3, Len(text))
                        /\ Targetable(u, [id |-> c, name |-> bot_db.channels[c].name,
                                          telegram |->
                                              bot_db.channels[c].telegram_channel,
                                          vk_group_id |->
                                              bot_db.channels[c].vk_group_id]))
                    => /\ user_data' = user_data
                       /\ bot_db' = bot_db
                       /\ update'[1].replies = <<"channel_not_found">>]_vars

\* a user who selected a channel that was deleted afterwards has chosen it
\* again and got the not-found reply, the earlier selection still stored
C31_Witness ==
    /\ update # NULL
    /\ update[1].user = FirstUser
    /\ update[1].replies = <<"channel_not_found">>
    /\ Has(user_data[FirstUser], "selected_channel")
    /\ ~bot_db.channels[user_data[FirstUser]["selected_channel"].id].is_active

\* a plain text of user u is published at once: u is approved, has a
\* channel selected and is in no dialogue
PublishesText(u) ==
    /\ is_user_approved(bot_db, u)
    /\ Has(user_data[u], "selected_channel")
    /\ \A k \in {"setup_stage", "delete_channel_stage", "delete_user_stage",
                 "add_admin_stage", "schedule_stage"} : ~Has(user_data[u], k)

\* a single photo of user u is published at once
PublishesPhoto(u) ==
    /\ is_user_approved(bot_db, u)
    /\ Has(user_data[u], "selected_channel")
    /\ user_data[u]["publish_type"] = "immediate"

\* result r of a handler that publishes under the platform outcomes env
\* reports every failure: the handler ends with a reply; when the Telegram
\* send raised, the reply is the error, no VK call was made and the channel
\* stays selected; when the VK upload or the wall post raised, the reply
\* names the VK failure
Reported(r, env) ==
    /\ ~r.raised
    /\ r.replies # <<>>
    /\ env.tg = "raised" =>
          /\ r.replies = <<"publish_error">>
          /\ \A k \in 1..Len(r.calls) :
                r.calls[k].method \notin {"vk.photo_wall", "vk.wall.post"}
          /\ Has(r.ud, "selected_channel")
    /\ (\E k \in 1..Len(r.calls) : r.calls[k].method = "vk.photo_wall"
                                     /\ env.vk = "upload_raised")
          => r.replies[Len(r.replies)] = "vk_error"
    /\ env.vk = "post_raised" /\ env.tg = "ok" /\ env.download = "ok"
          => r.replies[Len(r.replies)] = "vk_error"

\* C32: in every state, the handling of a plain text or of a single photo
\* that is published at once reports every failure to the sender within
\* the handler invocation, whatever the platforms do: a Telegram send that
\* raises gives the error reply, no VK call, no success reply and the
\* channel still selected; a VK upload or wall post that fails is named in
\* the reply.
C32_PublishFailureReported ==
    \A u \in BotIds : \A env \in Envs :
        /\ PublishesText(u) =>
              Reported(handle_text_message_with_token(
                           bot_db, user_data[u], u, ChannelName, now, env), env)
        /\ PublishesPhoto(u) =>
              \A msg \in {m \in Messages(TRUE) : m.media_group_id = NULL} :
                  Reported(handle_photo(bot_db, user_data[u], u, msg, env), env)

\* C33: a post with status sent is a post whose chat call and whose wall
\* call were both made and both completed without raising; a post for which
\* one of the two calls raised does not have status sent.
C33_SentOnlyAfterBothCalls ==
    \A i \in PostIds :
        /\ scheduled_posts[i].status = "sent" =>
              /\ hist[i].tg = "ok" /\ hist[i].tgCalls >= 1
              /\ hist[i].vk = "ok" /\ hist[i].vkCalls >= 1
        /\ (hist[i].tg = "raised" \/ hist[i].vk = "raised") =>
              scheduled_posts[i].status # "sent"

\* a post whose chat call completed and whose wall call raised is marked
\* failed, beside a post that is sent
C33_Witness ==
    /\ \E i \in PostIds :
          /\ hist[i].tg = "ok"
          /\ hist[i].vk = "raised"
          /\ scheduled_posts[i].status = "failed"
    /\ \E j \in PostIds : scheduled_posts[j].status = "sent"

\* C34: once the stop event is set it stays set; from then on no Task
\* passes the loop test to a due_posts() fetch, and a Task at its loop test,
\* among them every Task created by a later start(), finishes at its next
\* step without a fetch.
C34_StopSignalPermanent ==
    [][stop_event =>
          /\ stop_event'
          /\ \A t \in 1..Len(tasks') :
                /\ tasks'[t].pc = "due_posts" =>
                      t <= Len(tasks) /\ tasks[t].pc = "due_posts"
                /\ (t <= Len(tasks) /\ tasks[t].pc = "while"
                       /\ tasks'[t] # tasks[t])
                      => tasks'[t].state = "finished" /\ tasks'[t].posts = <<>>
                /\ t > Len(tasks) => tasks'[t].pc = "while"]_vars

\* a Task created by start() after a completed stop() has finished while a
\* pending post is due and the store is connected
C34_Witness ==
    /\ stop_event
    /\ pool
    /\ Len(tasks) = 2
    /\ tasks[2].state = "finished"
    /\ DueNow # {}

\* user u is in the delayed-post flow: a channel chosen in the scheduling
\* menu, publish_type = scheduled, schedule_stage set
InDelayedFlow(u) ==
    /\ is_user_approved(bot_db, u)
    /\ Has(user_data[u], "selected_channel")
    /\ Has(user_data[u], "publish_type")
    /\ user_data[u]["publish_type"] = "scheduled"
    /\ Has(user_data[u], "schedule_stage")

\* C35: the handling of a text, a photo or another message of a user who is
\* in the delayed-post flow makes no call to Telegram or VK.
C35_NoPublicationInDelayedFlow ==
    [][\A u \in BotIds :
          (/\ InDelayedFlow(u)
           /\ update' # NULL
           /\ update'[1].user = u
           /\ update'[1].handler \in MessageHandlers)
              => update'[1].calls = <<>>]_vars

\* C36: a post_to_group call that uploads photos and posts to the wall uses
\* one set of credentials for both, also while update_token runs.
C36_OneCallOneToken ==
    (output # NULL /\ Len(Wall.tokens) = 2) => Wall.tokens[1] = Wall.tokens[2]

\* C37: when post_to_group has returned or raised, none of the temporary
\* files it created is left on disk.
C37_NoTemporaryFileLeft ==
    (output # NULL /\ Wall.pc \in {"returned", "raised"}) => Wall.on_disk = {}

\* C38: every approved user can target every active channel, that is
\* get_user_channels returns each active channel for each approved user.
C38_ApprovedUsersReachActiveChannels ==
    \A t \in DOMAIN bot_db.users :
        bot_db.users[t].is_approved =>
            LET chans == get_user_channels(bot_db, bot_db.users[t].id) IN
            \A c \in ActiveChannels(bot_db) :
                \E k \in 1..Len(chans) : chans[k].id = c

\* an approved user who is no administrator and did not create the active
\* channel, after a promotion was handled
C38_Witness ==
    /\ update # NULL
    /\ update[1].handler = "handle_admin_addition"
    /\ \E t \in DOMAIN bot_db.users :
          /\ bot_db.users[t].is_approved
          /\ ~bot_db.users[t].is_admin
          /\ \E c \in ActiveChannels(bot_db) :
                bot_db.channels[c].created_by # bot_db.users[t].id

\* C39: registering again never changes rights. upsert_user on a key the
\* table holds changes username, first_name and last_name of that row and
\* nothing else of the table, and on a new key adds a row that is neither
\* admin nor approved; /start from a registered user leaves bot.db as it
\* was, and the row /start creates is neither admin nor approved.
C39_RegistrationKeepsRights ==
    /\ [](output # NULL =>
             LET before == input.table
                 after == output[1].table
                 t == input.telegram_id
             IN  /\ DOMAIN after = DOMAIN before \cup {t}
                 /\ \A k \in DOMAIN before \ {t} : after[k] = before[k]
                 /\ output[1].record = after[t]
                 /\ after[t].username = input.username
                 /\ after[t].first_name = input.first_name
                 /\ after[t].last_name = input.last_name
                 /\ after[t].is_admin = (t \in DOMAIN before /\ before[t].is_admin)
                 /\ after[t].is_approved =
                        (t \in DOMAIN before /\ before[t].is_approved))
    /\ [][(update' # update /\ update'[1].handler = "start_command") =>
             LET u == update'[1].user IN
             IF u \in DOMAIN bot_db.users
             THEN bot_db' = bot_db
             ELSE /\ ~bot_db'.users[u].is_admin
                  /\ ~bot_db'.users[u].is_approved
                  /\ \A v \in DOMAIN bot_db.users :
                        bot_db'.users[v] = bot_db.users[v]]_vars

\* upsert_user has run on the key of an administrator who is approved, with
\* another first name, and /start was handled for a user who was promoted
C39_Witness ==
    /\ output # NULL
    /\ input.telegram_id \in DOMAIN input.table
    /\ input.table[input.telegram_id].is_admin
    /\ input.table[input.telegram_id].is_approved
    /\ input.table[input.telegram_id].first_name # input.first_name
    /\ update # NULL
    /\ update[1].handler = "start_command"
    /\ update[1].user # AdminId
    /\ bot_db.users[update[1].user].is_admin
====
